---- MODULE Spec2Model ----
(***************************************************************************)
(* Post lifecycle of the post-reply-service: the access policy and the     *)
(* status transition table of src/utils/postFilters.js, the handlers of    *)
(* post.controller.js and post.status.controller.js behind the router of   *)
(* routes/post.routes.js, and the older controller (postController) behind *)
(* routes/postRoutes.js.                                                   *)
(*                                                                         *)
(* Optional values (a field that may be undefined) are tuples: None is the *)
(* missing value and Some(x) the present one.                              *)
(***************************************************************************)
EXTENDS Integers, Sequences, FiniteSets, TLC

VARIABLES
    app,         \* which router the process mounted: "post.routes" or "postRoutes"
    posts,       \* the posts collection: postId -> document
    res,         \* the last request handled and the response it was given
    replies,     \* the replies collection: _id (or replyId) -> document
    replyCount,  \* the replyCount path of each post document, written by $inc only
    inflight,    \* the requests between their find and their save: slot -> request
    files        \* the objects the file service stores, by URL

vars == <<app, posts, res, replies, replyCount, inflight, files>>

\* what the handlers of the posts leave alone
replyVars == <<replies, replyCount>>

\* the requests under way and the file store
ioVars == <<inflight, files>>

----------------------------------------------------------------------------
(* Values *)

None == << >>
Some(x) == <<x>>

\* new Date() and Date.now: the instant of the request.  Dates are compared
\* by nothing in these handlers, so every instant is the same value.
Now == "now"

\* a test for undefined only, which takes "" for a value
Truthy_Mutant(s) == s # None

\* JavaScript truthiness of an optional string: undefined and "" are falsy.
Truthy(s) == s # None /\ s[1] # ""

\* enum of the status path of the Post schema
Statuses == {"unpublished", "published", "hidden", "banned", "deleted"}

\* Own enumerable keys are looked up first; these keys are inherited by every
\* object literal from Object.prototype and are therefore found by obj[key].
ObjectPrototypeKeys == {"constructor", "toString", "__proto__"}

\* status strings handed to the pure functions: the five of the schema, one
\* that no table lists, one inherited key, and "" (a missing query parameter)
StatusInputs == Statuses \cup {"archived", "constructor", ""}

UserTypes == {"user", "admin", "superadmin", "super_admin", ""}

\* ['admin', 'superadmin'].includes(userType)
IsAdminType(userType) == userType \in {"admin", "superadmin"}

\* String.prototype.trim, the setter mongoose runs on title (trim: true)
Trim(s) ==
    CASE s = " "  -> ""
      [] s = " a" -> "a"
      [] OTHER    -> s

----------------------------------------------------------------------------
(* utils/postFilters.js *)

\* { status: specificStatus }
FilterEq(s) == [op |-> "eq", statuses |-> {s}]
\* { status: { $in: [...] } }
FilterIn(S) == [op |-> "in", statuses |-> S]

\* the statuses a document may have to match the filter
FilterStatuses(f) == f.statuses

\* without the owner-only branch for unpublished and hidden
buildVisibilityFilter_Mutant(userId, userType, specificStatus) ==
    LET adminStatuses == {"published", "banned", "deleted"}
    IN  IF IsAdminType(userType)
        THEN IF Truthy(specificStatus) /\ specificStatus[1] \in adminStatuses
             THEN FilterEq(specificStatus[1])
             ELSE FilterIn(adminStatuses)
        ELSE IF Truthy(specificStatus) /\ specificStatus[1] \in {"published", "unpublished", "hidden"}
             THEN FilterEq(specificStatus[1])
             ELSE FilterIn({"published"})

buildVisibilityFilter(userId, userType, specificStatus) ==
    LET isAdmin == IsAdminType(userType)
        adminStatuses == {"published", "banned", "deleted"}
        publicStatuses == {"published"}
    IN  IF isAdmin
        THEN IF Truthy(specificStatus) /\ specificStatus[1] \in adminStatuses
             THEN FilterEq(specificStatus[1])
             ELSE FilterIn(adminStatuses)
        ELSE IF specificStatus = Some("unpublished") \/ specificStatus = Some("hidden")
             THEN FilterIn({})
             ELSE IF Truthy(specificStatus) /\ specificStatus[1] \in publicStatuses
                  THEN FilterEq(specificStatus[1])
                  ELSE FilterIn(publicStatuses)

\* hidden posts treated like banned ones
canViewPost_Mutant(post, userId, userType) ==
    LET isAdmin == IsAdminType(userType)
        isOwner == post.userId = userId
    IN  CASE post.status = "unpublished" -> isOwner
          [] post.status = "published"   -> TRUE
          [] post.status \in {"hidden", "banned", "deleted"} -> isAdmin \/ isOwner
          [] OTHER                       -> FALSE

canViewPost(post, userId, userType) ==
    LET isAdmin == IsAdminType(userType)
        isOwner == post.userId = userId
    IN  CASE post.status = "unpublished" -> isOwner
          [] post.status = "published"   -> TRUE
          [] post.status = "hidden"      -> isOwner
          [] post.status = "banned"      -> isAdmin \/ isOwner
          [] post.status = "deleted"     -> isAdmin \/ isOwner
          [] OTHER                       -> FALSE

\* the status list forgotten for the owner, admins let in
canModifyPost_Mutant(post, userId, userType) ==
    post.userId = userId \/ IsAdminType(userType)

canModifyPost(post, userId, userType) ==
    LET isOwner == post.userId = userId
    IN  IF isOwner
        THEN post.status \in {"unpublished", "published", "hidden"}
        ELSE FALSE

ownerTransitions ==
    [unpublished |-> {"published", "deleted"},
     published   |-> {"hidden", "deleted"},
     hidden      |-> {"published", "deleted"},
     banned      |-> {"deleted"},
     deleted     |-> {}]

adminTransitions ==
    [published   |-> {"banned"},
     hidden      |-> {"banned"},
     banned      |-> {"published"},
     deleted     |-> {"published"},
     unpublished |-> {}]

\* validTransitions[currentStatus]: an own key gives its list, a key
\* inherited from Object.prototype gives that (truthy, non-array) member,
\* any other key gives undefined.
Lookup(table, key) ==
    IF key \in DOMAIN table THEN [kind |-> "array", elems |-> table[key]]
    ELSE IF key \in ObjectPrototypeKeys THEN [kind |-> "inherited", elems |-> {}]
    ELSE [kind |-> "undefined", elems |-> {}]

Returned(allowed, reason) == [kind |-> "return", allowed |-> allowed, reason |-> reason]
\* allowedTargets.includes is not a function
Threw == [kind |-> "throw", allowed |-> FALSE, reason |-> None]

validateStatusTransition(currentStatus, targetStatus, userType) ==
    LET isAdmin == IsAdminType(userType)
        validTransitions == IF isAdmin THEN adminTransitions ELSE ownerTransitions
        found == Lookup(validTransitions, currentStatus)
        \* validTransitions[currentStatus] || []
        allowedTargets == IF found.kind = "undefined"
                          THEN [kind |-> "array", elems |-> {}]
                          ELSE found
    IN  IF allowedTargets.kind # "array"
        THEN Threw
        ELSE IF targetStatus \in allowedTargets.elems
             THEN Returned(TRUE, None)
             ELSE Returned(FALSE, Some(<<"Cannot transition from ", currentStatus,
                                         " to ", targetStatus>>))

----------------------------------------------------------------------------
(* Requests and documents of the post.routes.js application *)

PostIds == {"p1"}

\* req.user as authenticateToken leaves it: userId and userType of the token
Tokens ==
    {[userId |-> "u1", userType |-> "user"],
     [userId |-> "a1", userType |-> "admin"],
     [userId |-> "s1", userType |-> "superadmin"]}

\* req.body.title / req.body.content
TitleInputs == {None, Some(" "), Some("a")}
ContentInputs == {None, Some("c")}
\* req.body.publish
PublishInputs == {None, Some("false")}
\* req.body.reason
ReasonInputs == {None, Some(""), Some("spam")}
\* req.query.status, req.query.page, req.query.limit
StatusParams == {None, Some("published"), Some("unpublished"), Some("hidden"), Some("banned")}
PageParams == {None, Some("2")}
LimitParams == {None}

\* A JavaScript number is Some(n); NaN is the number that equals nothing.
NaN == None

\* parseInt of a query string or header value; undefined parses to NaN
ParseInt(x) ==
    CASE x = Some("0") -> Some(0)
      [] x = Some("1") -> Some(1)
      [] x = Some("2") -> Some(2)
      [] OTHER         -> NaN

\* parseInt(x) || dflt: NaN and 0 are falsy
ParseIntOr(x, dflt) ==
    LET n == ParseInt(x)
    IN  IF n = NaN \/ n = Some(0) THEN dflt ELSE n[1]

\* a === b on numbers
StrictEq(a, b) == a # NaN /\ b # NaN /\ a = b

\* A path with trim: true stores the trimmed string; undefined stays unset.
SetTitle(t) == IF t = None THEN None ELSE Some(Trim(t[1]))

\* A message is the tuple of its pieces, so that a template literal keeps
\* the values it interpolates.
Response(op, tok, id, req, code, message, data) ==
    [op |-> op, userId |-> tok.userId, userType |-> tok.userType, postId |-> id,
     req |-> req, code |-> code, message |-> message, data |-> data]

NoReq == [none |-> TRUE]

\* new Post({...}) in createPost, with the defaults of models/Post.js
NewPost(userId, title, content, status) ==
    [userId |-> userId, title |-> SetTitle(title), content |-> content,
     status |-> status, isArchived |-> FALSE, repliesDisabled |-> FALSE,
     images |-> << >>, attachments |-> << >>,
     dateCreated |-> Now, dateModified |-> Now,
     dateDeleted |-> None, dateBanned |-> None,
     bannedBy |-> None, bannedReason |-> None]

\* post.save() of a loaded document: the pre('save') hook stamps dateModified
Save(id, doc) == posts' = [posts EXCEPT ![id] = [doc EXCEPT !.dateModified = Now]]

\* middleware/auth.middleware.js isOwnerOrAdmin: None lets the request through
isOwnerOrAdmin(tok, id) ==
    IF tok.userType = "admin" \/ tok.userType = "superadmin" THEN None
    ELSE IF id \notin DOMAIN posts THEN Some(<<404, <<"Post not found">>>>)
    ELSE IF posts[id].userId = tok.userId THEN None
    ELSE Some(<<403, <<"You do not have permission to perform this action">>>>)

\* middleware/auth.middleware.js isAdmin
isAdmin(tok) ==
    IF tok.userType = "admin" \/ tok.userType = "superadmin" THEN None
    ELSE Some(<<403, <<"Admin access required">>>>)

\* A handler that answers without saving
Refuse(op, tok, id, req, code, message) ==
    /\ res' = Response(op, tok, id, req, code, message, None)
    /\ UNCHANGED <<app, posts, replyVars, ioVars>>

\* A handler that saves doc and answers 200 with it
Accept(op, tok, id, req, doc) ==
    /\ Save(id, doc)
    /\ res' = Response(op, tok, id, req, 200, << >>, Some(posts'[id]))
    /\ UNCHANGED <<app, replyVars, ioVars>>

\* A handler that saves doc and answers 200 with a message
AcceptMessage(op, tok, id, req, doc, message) ==
    /\ Save(id, doc)
    /\ res' = Response(op, tok, id, req, 200, message, None)
    /\ UNCHANGED <<app, replyVars, ioVars>>

----------------------------------------------------------------------------
(* controllers/post.status.controller.js *)

publishPost(tok, id) ==
    LET op == "publishPost"
        gate == isOwnerOrAdmin(tok, id)
    IN  /\ app = "post.routes"
        /\ IF gate # None
           THEN Refuse(op, tok, id, NoReq, gate[1][1], gate[1][2])
           ELSE IF id \notin DOMAIN posts
           THEN Refuse(op, tok, id, NoReq, 404, <<"Post not found">>)
           ELSE LET post == posts[id]
                    transition == validateStatusTransition(post.status, "published", tok.userType)
                IN  IF post.userId # tok.userId
                    THEN Refuse(op, tok, id, NoReq, 403,
                                <<"You do not have permission to publish this post">>)
                    ELSE IF ~transition.allowed
                    THEN Refuse(op, tok, id, NoReq, 400, transition.reason[1])
                    ELSE IF ~Truthy(post.title) \/ ~Truthy(post.content)
                    THEN Refuse(op, tok, id, NoReq, 400,
                                <<"Title and content are required to publish">>)
                    ELSE Accept(op, tok, id, NoReq, [post EXCEPT !.status = "published"])

hidePost(tok, id) ==
    LET op == "hidePost"
        gate == isOwnerOrAdmin(tok, id)
    IN  /\ app = "post.routes"
        /\ IF gate # None
           THEN Refuse(op, tok, id, NoReq, gate[1][1], gate[1][2])
           ELSE IF id \notin DOMAIN posts
           THEN Refuse(op, tok, id, NoReq, 404, <<"Post not found">>)
           ELSE LET post == posts[id]
                    transition == validateStatusTransition(post.status, "hidden", tok.userType)
                IN  IF post.userId # tok.userId
                    THEN Refuse(op, tok, id, NoReq, 403,
                                <<"You do not have permission to hide this post">>)
                    ELSE IF ~transition.allowed
                    THEN Refuse(op, tok, id, NoReq, 400, transition.reason[1])
                    ELSE Accept(op, tok, id, NoReq, [post EXCEPT !.status = "hidden"])

unhidePost(tok, id) ==
    LET op == "unhidePost"
        gate == isOwnerOrAdmin(tok, id)
    IN  /\ app = "post.routes"
        /\ IF gate # None
           THEN Refuse(op, tok, id, NoReq, gate[1][1], gate[1][2])
           ELSE IF id \notin DOMAIN posts
           THEN Refuse(op, tok, id, NoReq, 404, <<"Post not found">>)
           ELSE LET post == posts[id]
                    transition == validateStatusTransition(post.status, "published", tok.userType)
                IN  IF post.userId # tok.userId
                    THEN Refuse(op, tok, id, NoReq, 403,
                                <<"You do not have permission to unhide this post">>)
                    ELSE IF ~transition.allowed
                    THEN Refuse(op, tok, id, NoReq, 400, transition.reason[1])
                    ELSE Accept(op, tok, id, NoReq, [post EXCEPT !.status = "published"])

\* the assignments banPost makes before save()
Banned(post, adminId, reason) ==
    [post EXCEPT !.status = "banned",
                 !.dateBanned = Some(Now),
                 !.bannedBy = Some(adminId),
                 !.bannedReason = IF Truthy(reason) THEN reason ELSE @]

banPost(tok, id, reason) ==
    LET op == "banPost"
        req == [reason |-> reason]
        gate == isAdmin(tok)
    IN  /\ app = "post.routes"
        /\ IF gate # None
           THEN Refuse(op, tok, id, req, gate[1][1], gate[1][2])
           ELSE IF id \notin DOMAIN posts
           THEN Refuse(op, tok, id, req, 404, <<"Post not found">>)
           ELSE LET post == posts[id]
                    transition == validateStatusTransition(post.status, "banned", tok.userType)
                IN  IF ~transition.allowed
                    THEN Refuse(op, tok, id, req, 400, transition.reason[1])
                    ELSE Accept(op, tok, id, req, Banned(post, tok.userId, reason))

\* bannedReason left behind
Unbanned_Mutant(post) ==
    [post EXCEPT !.status = "published",
                 !.dateBanned = None,
                 !.bannedBy = None]

\* the assignments unbanPost makes before save()
Unbanned(post) ==
    [post EXCEPT !.status = "published",
                 !.dateBanned = None,
                 !.bannedBy = None,
                 !.bannedReason = None]

unbanPost(tok, id) ==
    LET op == "unbanPost"
        gate == isAdmin(tok)
    IN  /\ app = "post.routes"
        /\ IF gate # None
           THEN Refuse(op, tok, id, NoReq, gate[1][1], gate[1][2])
           ELSE IF id \notin DOMAIN posts
           THEN Refuse(op, tok, id, NoReq, 404, <<"Post not found">>)
           ELSE LET post == posts[id]
                    transition == validateStatusTransition(post.status, "published", tok.userType)
                IN  IF ~transition.allowed
                    THEN Refuse(op, tok, id, NoReq, 400, transition.reason[1])
                    ELSE Accept(op, tok, id, NoReq, Unbanned(post))

\* replies opened again on recovery
Recovered_Mutant(post) ==
    [post EXCEPT !.status = "published",
                 !.dateDeleted = None,
                 !.repliesDisabled = FALSE]

\* the assignments recoverPost makes before save()
Recovered(post) ==
    [post EXCEPT !.status = "published",
                 !.dateDeleted = None]

recoverPost(tok, id) ==
    LET op == "recoverPost"
        gate == isAdmin(tok)
    IN  /\ app = "post.routes"
        /\ IF gate # None
           THEN Refuse(op, tok, id, NoReq, gate[1][1], gate[1][2])
           ELSE IF id \notin DOMAIN posts
           THEN Refuse(op, tok, id, NoReq, 404, <<"Post not found">>)
           ELSE LET post == posts[id]
                    transition == validateStatusTransition(post.status, "published", tok.userType)
                IN  IF ~transition.allowed
                    THEN Refuse(op, tok, id, NoReq, 400, transition.reason[1])
                    ELSE Accept(op, tok, id, NoReq, Recovered(post))

\* without the status check
RepliesGate_Mutant(post, tok, verb) ==
    IF post.userId # tok.userId
    THEN Some(<<403, <<"You do not have permission to ", verb, " replies for this post">>>>)
    ELSE None

\* the guard of disableReplies and enableReplies: None lets the request through
RepliesGate(post, tok, verb) ==
    IF post.userId # tok.userId
    THEN Some(<<403, <<"You do not have permission to ", verb, " replies for this post">>>>)
    ELSE IF post.status # "published"
    THEN Some(<<400, <<"Can only ", verb, " replies on published posts">>>>)
    ELSE None

disableReplies(tok, id) ==
    LET op == "disableReplies"
        gate == isOwnerOrAdmin(tok, id)
    IN  /\ app = "post.routes"
        /\ IF gate # None
           THEN Refuse(op, tok, id, NoReq, gate[1][1], gate[1][2])
           ELSE IF id \notin DOMAIN posts
           THEN Refuse(op, tok, id, NoReq, 404, <<"Post not found">>)
           ELSE LET post == posts[id]
                    denied == RepliesGate(post, tok, "disable")
                IN  IF denied # None
                    THEN Refuse(op, tok, id, NoReq, denied[1][1], denied[1][2])
                    ELSE Accept(op, tok, id, NoReq, [post EXCEPT !.repliesDisabled = TRUE])

enableReplies(tok, id) ==
    LET op == "enableReplies"
        gate == isOwnerOrAdmin(tok, id)
    IN  /\ app = "post.routes"
        /\ IF gate # None
           THEN Refuse(op, tok, id, NoReq, gate[1][1], gate[1][2])
           ELSE IF id \notin DOMAIN posts
           THEN Refuse(op, tok, id, NoReq, 404, <<"Post not found">>)
           ELSE LET post == posts[id]
                    denied == RepliesGate(post, tok, "enable")
                IN  IF denied # None
                    THEN Refuse(op, tok, id, NoReq, denied[1][1], denied[1][2])
                    ELSE Accept(op, tok, id, NoReq, [post EXCEPT !.repliesDisabled = FALSE])

----------------------------------------------------------------------------
(* controllers/post.controller.js *)

\* the orders find(filter).sort({ dateCreated: -1 }) may return ids in:
\* documents of equal dateCreated come in any order
SortedByDateCreatedDesc(ids) ==
    {q \in [1..Cardinality(ids) -> ids] :
        /\ \A i, j \in DOMAIN q : i # j => q[i] # q[j]
        /\ \A i, j \in DOMAIN q :
              i < j => posts[q[i]].dateCreated = posts[q[j]].dateCreated}

\* .skip(skip).limit(limit)
SkipLimit(q, skip, limit) ==
    SubSeq(q, skip + 1, IF skip + limit < Len(q) THEN skip + limit ELSE Len(q))

listPosts(tok, statusParam, pageParam, limitParam) ==
    LET op == "listPosts"
        req == [status |-> statusParam, page |-> pageParam, limit |-> limitParam]
        page == ParseIntOr(pageParam, 1)
        limit == ParseIntOr(limitParam, 10)
        skip == (page - 1) * limit
        statusFilter == buildVisibilityFilter(tok.userId, tok.userType, statusParam)
        matching == {id \in DOMAIN posts : posts[id].status \in FilterStatuses(statusFilter)}
    IN  /\ app = "post.routes"
        /\ \E q \in SortedByDateCreatedDesc(matching) :
              res' = Response(op, tok, "", req, 200, << >>,
                              Some([posts |-> SkipLimit(q, skip, limit),
                                    total |-> Cardinality(matching)]))
        /\ UNCHANGED <<app, posts, replyVars, ioVars>>

getPostById(tok, id) ==
    LET op == "getPostById"
    IN  /\ app = "post.routes"
        /\ IF id \notin DOMAIN posts
           THEN Refuse(op, tok, id, NoReq, 404, <<"Post not found">>)
           ELSE IF ~canViewPost(posts[id], tok.userId, tok.userType)
           THEN Refuse(op, tok, id, NoReq, 403,
                       <<"You do not have permission to view this post">>)
           ELSE /\ res' = Response(op, tok, id, NoReq, 200, << >>, Some(posts[id]))
                /\ UNCHANGED <<app, posts, replyVars, ioVars>>

\* Requests without multipart files: req.files is undefined.
createPost(tok, title, content, publishParam) ==
    LET op == "createPost"
        req == [title |-> title, content |-> content, publish |-> publishParam]
        publish == publishParam # Some("false")
    IN  /\ app = "post.routes"
        /\ IF publish /\ (~Truthy(title) \/ ~Truthy(content))
           THEN Refuse(op, tok, "", req, 400, <<"Title and content are required to publish">>)
           ELSE \E postId \in PostIds \ DOMAIN posts :
                  /\ posts' = posts @@ (postId :>
                                NewPost(tok.userId, title, content,
                                        IF publish THEN "published" ELSE "unpublished"))
                  /\ res' = Response(op, tok, postId, req, 201, << >>, Some(posts'[postId]))
                  /\ UNCHANGED <<app, replyVars, ioVars>>

\* Requests without multipart files and without removeImages/removeAttachments.
updatePost(tok, id, title, content) ==
    LET op == "updatePost"
        req == [title |-> title, content |-> content]
        gate == isOwnerOrAdmin(tok, id)
    IN  /\ app = "post.routes"
        /\ IF gate # None
           THEN Refuse(op, tok, id, req, gate[1][1], gate[1][2])
           ELSE IF id \notin DOMAIN posts
           THEN Refuse(op, tok, id, req, 404, <<"Post not found">>)
           ELSE LET post == posts[id]
                IN  IF ~canModifyPost(post, tok.userId, tok.userType)
                    THEN Refuse(op, tok, id, req, 403,
                                <<"Cannot modify post with current status">>)
                    ELSE Accept(op, tok, id, req,
                                [post EXCEPT !.title = IF Truthy(title) THEN SetTitle(title) ELSE @,
                                             !.content = IF Truthy(content) THEN content ELSE @])

\* the assignments deletePost makes before save()
Deleted(post) ==
    [post EXCEPT !.status = "deleted",
                 !.dateDeleted = Some(Now)]

deletePost(tok, id) ==
    LET op == "deletePost"
        gate == isOwnerOrAdmin(tok, id)
    IN  /\ app = "post.routes"
        /\ IF gate # None
           THEN Refuse(op, tok, id, NoReq, gate[1][1], gate[1][2])
           ELSE IF id \notin DOMAIN posts
           THEN Refuse(op, tok, id, NoReq, 404, <<"Post not found">>)
           ELSE LET post == posts[id]
                IN  IF post.userId # tok.userId /\ ~(tok.userType \in {"admin", "superadmin"})
                    THEN Refuse(op, tok, id, NoReq, 403,
                                <<"You do not have permission to delete this post">>)
                    ELSE AcceptMessage(op, tok, id, NoReq, Deleted(post),
                                       <<"Post deleted successfully">>)

----------------------------------------------------------------------------
(* The older controller (postController) behind routes/postRoutes.js.  It   *)
(* reads the caller from the x-user-id and x-user-type headers.            *)

\* the x-user-id header
UserIdHeaders == {None, Some("1"), Some("2")}
\* the x-user-type header
UserTypeHeaders == {"", "admin", "super_admin", "superadmin"}
\* req.body.status
LegacyStatusInputs == {None} \cup {Some(s) : s \in Statuses}

Headers(userIdHeader, userTypeHeader) == [userId |-> userIdHeader, userType |-> userTypeHeader]

\* express-validator body(field).trim(): the sanitizer rewrites a present value
Sanitize(t) == IF t = None THEN None ELSE Some(Trim(t[1]))

\* new Post({...}) with the defaults of the older Post schema
LegacyNewPost(userId, title, content, status) ==
    [userId |-> userId, title |-> SetTitle(title), content |-> content,
     isArchived |-> FALSE, status |-> status,
     dateCreated |-> Now, dateModified |-> None,
     images |-> << >>, attachments |-> << >>, replyCount |-> 0]

LegacyRefuse(op, hdr, id, req, code, message) ==
    /\ res' = Response(op, hdr, id, req, code, message, None)
    /\ UNCHANGED <<app, posts, replyVars, ioVars>>

\* post.save() and res.json({ message, post })
LegacyAccept(op, hdr, id, req, doc, message) ==
    /\ posts' = [posts EXCEPT ![id] = doc]
    /\ res' = Response(op, hdr, id, req, 200, message, Some(doc))
    /\ UNCHANGED <<app, replyVars, ioVars>>

LegacyGetPostById(hdr, id) ==
    LET op == "getPostById"
        userId == ParseInt(hdr.userId)
    IN  /\ app = "postRoutes"
        /\ IF id \notin DOMAIN posts
           THEN LegacyRefuse(op, hdr, id, NoReq, 404, <<"Post not found">>)
           ELSE LET post == posts[id]
                    isOwner == StrictEq(post.userId, userId)
                    admin == hdr.userType \in {"admin", "super_admin"}
                IN  IF post.status = "unpublished" /\ ~isOwner
                    THEN LegacyRefuse(op, hdr, id, NoReq, 403, <<"Access denied">>)
                    ELSE IF post.status = "hidden" /\ ~isOwner
                    THEN LegacyRefuse(op, hdr, id, NoReq, 403, <<"This post is hidden">>)
                    ELSE IF post.status = "banned" /\ ~isOwner /\ ~admin
                    THEN LegacyRefuse(op, hdr, id, NoReq, 403, <<"This post has been banned">>)
                    ELSE IF post.status = "deleted" /\ ~isOwner /\ ~admin
                    THEN LegacyRefuse(op, hdr, id, NoReq, 404, <<"Post not found">>)
                    ELSE /\ res' = Response(op, hdr, id, NoReq, 200, << >>, Some(post))
                         /\ UNCHANGED <<app, posts, replyVars, ioVars>>

\* validatePost runs first; a NaN userId fails the Number cast in save()
LegacyCreatePost(hdr, title, content, status) ==
    LET op == "createPost"
        req == [title |-> title, content |-> content, status |-> status]
        userId == ParseInt(hdr.userId)
        valid == /\ Truthy(Sanitize(title))
                 /\ Truthy(Sanitize(content))
                 /\ status \in {None, Some("unpublished"), Some("published")}
    IN  /\ app = "postRoutes"
        /\ IF ~valid
           THEN LegacyRefuse(op, hdr, "", req, 400, <<"validation">>)
           ELSE IF userId = NaN
           THEN LegacyRefuse(op, hdr, "", req, 500, <<"Post validation failed">>)
           ELSE \E id \in PostIds \ DOMAIN posts :
                  /\ posts' = posts @@ (id :>
                                LegacyNewPost(userId, Sanitize(title), Sanitize(content),
                                              IF Truthy(status) THEN status[1] ELSE "unpublished"))
                  /\ res' = Response(op, hdr, id, req, 201,
                                     <<"Post created successfully">>, Some(posts'[id]))
                  /\ UNCHANGED <<app, replyVars, ioVars>>

\* validatePostUpdate only sanitizes: updatePost never reads validationResult
LegacyUpdatePost(hdr, id, title, content) ==
    LET op == "updatePost"
        req == [title |-> title, content |-> content]
        userId == ParseInt(hdr.userId)
    IN  /\ app = "postRoutes"
        /\ IF id \notin DOMAIN posts
           THEN LegacyRefuse(op, hdr, id, req, 404, <<"Post not found">>)
           ELSE LET post == posts[id]
                IN  IF ~StrictEq(post.userId, userId)
                    THEN LegacyRefuse(op, hdr, id, req, 403, <<"Access denied">>)
                    ELSE IF post.status \in {"banned", "deleted"}
                    THEN LegacyRefuse(op, hdr, id, req, 403, <<"Cannot update this post">>)
                    ELSE LegacyAccept(op, hdr, id, req,
                            [post EXCEPT
                               !.title = IF Truthy(Sanitize(title)) THEN Sanitize(title) ELSE @,
                               !.content = IF Truthy(Sanitize(content)) THEN Sanitize(content) ELSE @,
                               !.dateModified = Some(Now)],
                            <<"Post updated successfully">>)

updatePostStatus(hdr, id, status) ==
    LET op == "updatePostStatus"
        req == [status |-> status]
        userId == ParseInt(hdr.userId)
        allowedStatuses == {"unpublished", "published", "hidden"}
    IN  /\ app = "postRoutes"
        /\ IF id \notin DOMAIN posts
           THEN LegacyRefuse(op, hdr, id, req, 404, <<"Post not found">>)
           ELSE LET post == posts[id]
                IN  IF ~StrictEq(post.userId, userId)
                    THEN LegacyRefuse(op, hdr, id, req, 403, <<"Access denied">>)
                    ELSE IF status = None \/ status[1] \notin allowedStatuses
                    THEN LegacyRefuse(op, hdr, id, req, 400, <<"Invalid status">>)
                    ELSE IF post.status = "banned" \/ post.status = "deleted"
                    THEN LegacyRefuse(op, hdr, id, req, 403,
                                      <<"Cannot change status of this post">>)
                    ELSE LegacyAccept(op, hdr, id, req, [post EXCEPT !.status = status[1]],
                                      <<"Post status updated">>)

toggleArchive(hdr, id) ==
    LET op == "toggleArchive"
        userId == ParseInt(hdr.userId)
    IN  /\ app = "postRoutes"
        /\ IF id \notin DOMAIN posts
           THEN LegacyRefuse(op, hdr, id, NoReq, 404, <<"Post not found">>)
           ELSE LET post == posts[id]
                IN  IF ~StrictEq(post.userId, userId)
                    THEN LegacyRefuse(op, hdr, id, NoReq, 403, <<"Access denied">>)
                    ELSE LegacyAccept(op, hdr, id, NoReq,
                            [post EXCEPT !.isArchived = ~post.isArchived],
                            IF ~post.isArchived THEN <<"Post archived">>
                                                ELSE <<"Post unarchived">>)

LegacyBanPost(hdr, id) ==
    LET op == "banPost"
    IN  /\ app = "postRoutes"
        /\ IF id \notin DOMAIN posts
           THEN LegacyRefuse(op, hdr, id, NoReq, 404, <<"Post not found">>)
           ELSE IF posts[id].status # "published"
           THEN LegacyRefuse(op, hdr, id, NoReq, 400, <<"Can only ban published posts">>)
           ELSE LegacyAccept(op, hdr, id, NoReq, [posts[id] EXCEPT !.status = "banned"],
                             <<"Post banned">>)

LegacyUnbanPost(hdr, id) ==
    LET op == "unbanPost"
    IN  /\ app = "postRoutes"
        /\ IF id \notin DOMAIN posts
           THEN LegacyRefuse(op, hdr, id, NoReq, 404, <<"Post not found">>)
           ELSE IF posts[id].status # "banned"
           THEN LegacyRefuse(op, hdr, id, NoReq, 400, <<"Post is not banned">>)
           ELSE LegacyAccept(op, hdr, id, NoReq, [posts[id] EXCEPT !.status = "published"],
                             <<"Post unbanned">>)

LegacyRecoverPost(hdr, id) ==
    LET op == "recoverPost"
    IN  /\ app = "postRoutes"
        /\ IF id \notin DOMAIN posts
           THEN LegacyRefuse(op, hdr, id, NoReq, 404, <<"Post not found">>)
           ELSE IF posts[id].status # "deleted"
           THEN LegacyRefuse(op, hdr, id, NoReq, 400, <<"Post is not deleted">>)
           ELSE LegacyAccept(op, hdr, id, NoReq, [posts[id] EXCEPT !.status = "published"],
                             <<"Post recovered">>)

LegacyDeletePost(hdr, id) ==
    LET op == "deletePost"
        userId == ParseInt(hdr.userId)
    IN  /\ app = "postRoutes"
        /\ IF id \notin DOMAIN posts
           THEN LegacyRefuse(op, hdr, id, NoReq, 404, <<"Post not found">>)
           ELSE IF ~StrictEq(posts[id].userId, userId)
           THEN LegacyRefuse(op, hdr, id, NoReq, 403, <<"Access denied">>)
           ELSE /\ posts' = [posts EXCEPT ![id].status = "deleted"]
                /\ res' = Response(op, hdr, id, NoReq, 200, <<"Post deleted">>, None)
                /\ UNCHANGED <<app, replyVars, ioVars>>

----------------------------------------------------------------------------
(* The service *)

Idle == [op |-> "", userId |-> "", userType |-> "", postId |-> "",
         req |-> NoReq, code |-> 0, message |-> << >>, data |-> None]

Init ==
    /\ app = "post.routes"
    /\ posts = << >>
    /\ res = Idle
    /\ replies = << >>
    /\ replyCount = [id \in PostIds |-> 0]
    /\ inflight = << >>
    /\ files = {}

Next ==
    \/ \E tok \in Tokens, id \in PostIds : publishPost(tok, id)
    \/ \E tok \in Tokens, id \in PostIds : hidePost(tok, id)
    \/ \E tok \in Tokens, id \in PostIds : unhidePost(tok, id)
    \/ \E tok \in Tokens, id \in PostIds, reason \in ReasonInputs : banPost(tok, id, reason)
    \/ \E tok \in Tokens, id \in PostIds : unbanPost(tok, id)
    \/ \E tok \in Tokens, id \in PostIds : recoverPost(tok, id)
    \/ \E tok \in Tokens, id \in PostIds : disableReplies(tok, id)
    \/ \E tok \in Tokens, id \in PostIds : enableReplies(tok, id)
    \/ \E tok \in Tokens, s \in StatusParams, pg \in PageParams, lim \in LimitParams :
          listPosts(tok, s, pg, lim)
    \/ \E tok \in Tokens, id \in PostIds : getPostById(tok, id)
    \/ \E tok \in Tokens, t \in TitleInputs, c \in ContentInputs, pub \in PublishInputs :
          createPost(tok, t, c, pub)
    \/ \E tok \in Tokens, id \in PostIds, t \in TitleInputs, c \in ContentInputs :
          updatePost(tok, id, t, c)
    \/ \E tok \in Tokens, id \in PostIds : deletePost(tok, id)

Spec == Init /\ [][Next]_vars

InitLegacy ==
    /\ app = "postRoutes"
    /\ posts = << >>
    /\ res = Idle
    /\ replies = << >>
    /\ replyCount = [id \in PostIds |-> 0]
    /\ inflight = << >>
    /\ files = {}

NextLegacy ==
    \/ \E u \in UserIdHeaders, ut \in UserTypeHeaders, id \in PostIds :
          LegacyGetPostById(Headers(u, ut), id)
    \/ \E u \in UserIdHeaders, t \in TitleInputs, c \in ContentInputs, s \in LegacyStatusInputs :
          LegacyCreatePost(Headers(u, ""), t, c, s)
    \/ \E u \in UserIdHeaders, id \in PostIds, t \in TitleInputs, c \in ContentInputs :
          LegacyUpdatePost(Headers(u, ""), id, t, c)
    \/ \E u \in UserIdHeaders, id \in PostIds, s \in LegacyStatusInputs :
          updatePostStatus(Headers(u, ""), id, s)
    \/ \E u \in UserIdHeaders, id \in PostIds : toggleArchive(Headers(u, ""), id)
    \/ \E u \in UserIdHeaders, id \in PostIds : LegacyBanPost(Headers(u, "admin"), id)
    \/ \E u \in UserIdHeaders, id \in PostIds : LegacyUnbanPost(Headers(u, "admin"), id)
    \/ \E u \in UserIdHeaders, id \in PostIds : LegacyRecoverPost(Headers(u, "admin"), id)
    \/ \E u \in UserIdHeaders, id \in PostIds : LegacyDeletePost(Headers(u, ""), id)

SpecLegacy == InitLegacy /\ [][NextLegacy]_vars

----------------------------------------------------------------------------
(* Direct calls of the exported functions of utils/postFilters.js *)

OwnerIds == {"u1", "a1"}

Call(fn, args, ret) == [op |-> fn, req |-> args, ret |-> ret]

validateStatusTransitionCall(currentStatus, targetStatus, userType) ==
    /\ res' = Call("validateStatusTransition",
                   [currentStatus |-> currentStatus, targetStatus |-> targetStatus,
                    userType |-> userType],
                   validateStatusTransition(currentStatus, targetStatus, userType))
    /\ UNCHANGED <<app, posts, replyVars, ioVars>>

canViewPostCall(ownerId, status, userId, userType) ==
    /\ res' = Call("canViewPost",
                   [ownerId |-> ownerId, status |-> status, userId |-> userId,
                    userType |-> userType],
                   canViewPost([userId |-> ownerId, status |-> status], userId, userType))
    /\ UNCHANGED <<app, posts, replyVars, ioVars>>

canModifyPostCall(ownerId, status, userId, userType) ==
    /\ res' = Call("canModifyPost",
                   [ownerId |-> ownerId, status |-> status, userId |-> userId,
                    userType |-> userType],
                   canModifyPost([userId |-> ownerId, status |-> status], userId, userType))
    /\ UNCHANGED <<app, posts, replyVars, ioVars>>

buildVisibilityFilterCall(userId, userType, specificStatus) ==
    /\ res' = Call("buildVisibilityFilter",
                   [userId |-> userId, userType |-> userType,
                    specificStatus |-> specificStatus],
                   buildVisibilityFilter(userId, userType, specificStatus))
    /\ UNCHANGED <<app, posts, replyVars, ioVars>>

InitPure ==
    /\ app = "postFilters"
    /\ posts = << >>
    /\ res = Call("", NoReq, None)
    /\ replies = << >>
    /\ replyCount = [id \in PostIds |-> 0]
    /\ inflight = << >>
    /\ files = {}

NextPure ==
    \/ \E cur \in StatusInputs, tgt \in StatusInputs, ut \in UserTypes :
          validateStatusTransitionCall(cur, tgt, ut)
    \/ \E o \in OwnerIds, s \in StatusInputs, u \in OwnerIds, ut \in UserTypes :
          canViewPostCall(o, s, u, ut)
    \/ \E o \in OwnerIds, s \in StatusInputs, u \in OwnerIds, ut \in UserTypes :
          canModifyPostCall(o, s, u, ut)
    \/ \E u \in OwnerIds, ut \in UserTypes, s \in {None} \cup {Some(x) : x \in StatusInputs} :
          buildVisibilityFilterCall(u, ut, s)

SpecPure == InitPure /\ [][NextPure]_vars

----------------------------------------------------------------------------
(* controllers/reply.controller.js: replies are documents of their own and   *)
(* carry their sub-replies embedded in the replies array.  The router of     *)
(* post.routes.js forwards /posts/:id/replies to it, the reply router mounts *)
(* the rest.                                                                 *)

\* _id of the top-level replies
ReplyIds == {"r1", "r2"}

\* most sub-replies pushed onto one reply
MaxSubs == 1

\* how far below zero the requests may take replyCount
MaxDebt == 1

\* req.user?.userId || req.headers['x-user-id'], req.user?.userType || ...
Requesters ==
    {[userId |-> "u1", userType |-> "user"],
     [userId |-> "u2", userType |-> "user"],
     [userId |-> "u3", userType |-> "user"],
     [userId |-> "a1", userType |-> "admin"]}

\* a request that carries no identity: userId is undefined
Anonymous == [userId |-> "", userType |-> ""]

\* req.body.comment
CommentInputs == {None, Some("hi")}

\* req.body.targetPath: indices, counted from 0, from the top-level reply down
TargetPaths == {<< >>, <<0>>, <<1>>}

\* the forms of createSubReply's req.body.parentReplyId
ParentReplyIdInputs == {None} \cup {Some(id) : id \in ReplyIds}

RECURSIVE countNested(_)
countNested(rs) ==
    IF rs = << >> THEN 0
    ELSE LET r == Head(rs)
         IN  (IF r.isActive # FALSE THEN 1 + countNested(r.replies) ELSE 0)
               + countNested(Tail(rs))

\* new Reply({ userId, postId, comment, attachments }) with the schema defaults
NewReply(userId, postId, comment) ==
    [userId |-> userId, postId |-> postId, comment |-> comment,
     isActive |-> TRUE, dateCreated |-> Now, replies |-> << >>]

\* newSub of createSubReply
NewSub(userId, comment) ==
    [userId |-> userId, comment |-> comment,
     isActive |-> TRUE, dateCreated |-> Now, replies |-> << >>]

\* Post.findOneAndUpdate({ postId }, { $inc: { replyCount: delta } })
Inc(postId, delta) ==
    replyCount' = IF postId \in DOMAIN posts
                  THEN [replyCount EXCEPT ![postId] = @ + delta]
                  ELSE replyCount

SoftDeleted_Mutant(reply) ==
    [reply EXCEPT !.isActive = FALSE,
                  !.replies = [i \in DOMAIN @ |-> [@[i] EXCEPT !.isActive = FALSE]]]

\* the flag flipped instead of cleared
SoftDeleted_Toggle(reply) == [reply EXCEPT !.isActive = ~@]

\* reply.isActive = false
SoftDeleted(reply) == [reply EXCEPT !.isActive = FALSE]

\* the reply that the indices of path lead to below doc, None when an index
\* has no element
RECURSIVE Resolve(_, _)
Resolve(doc, path) ==
    IF path = << >> THEN Some(doc)
    ELSE IF Head(path) + 1 \in DOMAIN doc.replies
         THEN Resolve(doc.replies[Head(path) + 1], Tail(path))
         ELSE None

\* current.replies[targetIndex].isActive = false, in place below doc
RECURSIVE SoftDeletedAt(_, _)
SoftDeletedAt(doc, path) ==
    IF path = << >> THEN SoftDeleted(doc)
    ELSE [doc EXCEPT !.replies[Head(path) + 1] = SoftDeletedAt(@, Tail(path))]

\* reply.toJSON(): the document with replyId in the place of _id
ReplyJSON(id) == [replyId |-> id, reply |-> replies[id]]

\* Reply.find({ postId, isActive: true })
ActiveTopLevel(postId) ==
    {id \in DOMAIN replies : replies[id].postId = postId /\ replies[id].isActive = TRUE}

\* .sort({ dateCreated: -1 }): replies of one instant come in any order
RepliesByDateCreatedDesc(ids) ==
    {q \in [1..Cardinality(ids) -> ids] :
        /\ \A i, j \in DOMAIN q : i # j => q[i] # q[j]
        /\ \A i, j \in DOMAIN q :
              i < j => replies[q[i]].dateCreated = replies[q[j]].dateCreated}

\* topLevelCount + totalNested: the active documents of the post and, for
\* each of them, countNested of its replies
TotalActive(rs, postId) ==
    LET allActive == {id \in DOMAIN rs : rs[id].postId = postId /\ rs[id].isActive = TRUE}
        topLevelCount == Cardinality(allActive)
        totalNested[S \in SUBSET allActive] ==
            IF S = {} THEN 0
            ELSE LET id == CHOOSE x \in S : TRUE
                 IN  countNested(rs[id].replies) + totalNested[S \ {id}]
    IN  topLevelCount + totalNested[allActive]

getRepliesByPost(postId, pageParam, limitParam) ==
    LET op == "getRepliesByPost"
        req == [page |-> pageParam, limit |-> limitParam]
        page == ParseIntOr(pageParam, 1)
        limit == ParseIntOr(limitParam, 20)
        skip == (page - 1) * limit
        allActive == ActiveTopLevel(postId)
        total == TotalActive(replies, postId)
    IN  /\ app = "post.routes"
        /\ IF postId \notin DOMAIN posts
           THEN Refuse(op, Anonymous, postId, req, 404, <<"Post not found">>)
           ELSE /\ \E q \in RepliesByDateCreatedDesc(allActive) :
                     LET found == SkipLimit(q, skip, limit)
                     IN  res' = Response(op, Anonymous, postId, req, 200, << >>,
                                  Some([replies |-> [i \in DOMAIN found |-> ReplyJSON(found[i])],
                                        total |-> total]))
                /\ UNCHANGED <<app, posts, replyVars, ioVars>>

createReply(tok, postId, comment) ==
    LET op == "createReply"
        req == [comment |-> comment]
    IN  /\ app = "post.routes"
        /\ IF tok.userId = "" \/ ~Truthy(comment)
           THEN Refuse(op, tok, postId, req, 400, <<"Missing userId or comment">>)
           ELSE IF postId \notin DOMAIN posts
           THEN Refuse(op, tok, postId, req, 404, <<"Post not found">>)
           ELSE IF posts[postId].status # "published" \/ posts[postId].isArchived
           THEN Refuse(op, tok, postId, req, 403, <<"Cannot reply to this post">>)
           ELSE \E id \in ReplyIds \ DOMAIN replies :
                  /\ replies' = replies @@ (id :> NewReply(tok.userId, postId, comment[1]))
                  /\ Inc(postId, 1)
                  /\ res' = Response(op, tok, postId, req, 201,
                                     <<"Reply created successfully">>, Some(id))
                  /\ UNCHANGED <<app, posts, ioVars>>

\* The search of the replies of req.body.postId only repeats findById(replyId)
\* and finds nothing new, so the body's postId is left out of the request.
createSubReply(tok, replyId, comment, parentReplyId) ==
    LET op == "createSubReply"
        req == [replyId |-> replyId, comment |-> comment, parentReplyId |-> parentReplyId]
        byParent == IF Truthy(parentReplyId) /\ parentReplyId[1] \in DOMAIN replies
                    THEN parentReplyId ELSE None
        top == IF byParent # None THEN byParent
               ELSE IF replyId \in DOMAIN replies THEN Some(replyId) ELSE None
    IN  /\ app = "post.routes"
        /\ IF tok.userId = "" \/ ~Truthy(comment)
           THEN Refuse(op, tok, "", req, 400, <<"Missing userId or comment">>)
           ELSE IF top = None
           THEN Refuse(op, tok, "", req, 404, <<"Reply not found">>)
           ELSE LET doc == replies[top[1]]
                IN  IF \/ doc.postId \notin DOMAIN posts
                       \/ posts[doc.postId].status # "published"
                       \/ posts[doc.postId].isArchived
                    THEN Refuse(op, tok, "", req, 403, <<"Cannot reply to this post">>)
                    ELSE /\ Len(doc.replies) < MaxSubs
                         /\ replies' = [replies EXCEPT ![top[1]].replies =
                                           Append(@, NewSub(tok.userId, comment[1]))]
                         /\ Inc(doc.postId, 1)
                         /\ res' = Response(op, tok, "", req, 201,
                                            <<"Sub-reply created successfully">>, Some(top[1]))
                         /\ UNCHANGED <<app, posts, ioVars>>

deleteNestedReply(tok, parentReplyId, targetPath) ==
    LET op == "deleteNestedReply"
        req == [parentReplyId |-> parentReplyId, targetPath |-> targetPath]
    IN  /\ app = "post.routes"
        /\ IF targetPath = << >>
           THEN Refuse(op, tok, "", req, 400, <<"Invalid target path">>)
           ELSE IF parentReplyId \notin DOMAIN replies
           THEN Refuse(op, tok, "", req, 404, <<"Parent reply not found">>)
           ELSE IF replies[parentReplyId].postId \notin DOMAIN posts
           THEN Refuse(op, tok, "", req, 404, <<"Post not found">>)
           ELSE LET parent == replies[parentReplyId]
                    post == posts[parent.postId]
                    target == Resolve(parent, targetPath)
                IN  IF target = None
                    THEN Refuse(op, tok, "", req, 404, <<"Target reply not found">>)
                    ELSE LET isReplyOwner == target[1].userId = tok.userId
                             isPostOwner == post.userId = tok.userId
                             admin == tok.userType \in {"admin", "superadmin"}
                         IN  IF ~isReplyOwner /\ ~isPostOwner /\ ~admin
                             THEN Refuse(op, tok, "", req, 403, <<"Access denied">>)
                             ELSE /\ replyCount[parent.postId] - 1 >= -MaxDebt
                                  /\ replies' = [replies EXCEPT ![parentReplyId] =
                                                    SoftDeletedAt(parent, targetPath)]
                                  /\ Inc(parent.postId, -1)
                                  /\ res' = Response(op, tok, "", req, 200,
                                                     <<"Reply deleted">>, None)
                                  /\ UNCHANGED <<app, posts, ioVars>>

deleteReply(tok, id) ==
    LET op == "deleteReply"
        req == [id |-> id]
    IN  /\ app = "post.routes"
        /\ IF id \notin DOMAIN replies
           THEN Refuse(op, tok, "", req, 404, <<"Reply not found">>)
           ELSE LET reply == replies[id]
                    isReplyOwner == reply.userId = tok.userId
                    isPostOwner == /\ reply.postId \in DOMAIN posts
                                   /\ posts[reply.postId].userId = tok.userId
                    admin == tok.userType \in {"admin", "superadmin"}
                    nestedCount == countNested(reply.replies)
                IN  IF ~isReplyOwner /\ ~isPostOwner /\ ~admin
                    THEN Refuse(op, tok, "", req, 403, <<"Access denied">>)
                    ELSE /\ replyCount[reply.postId] - (1 + nestedCount) >= -MaxDebt
                         /\ replies' = [replies EXCEPT ![id] = SoftDeleted(reply)]
                         /\ Inc(reply.postId, -(1 + nestedCount))
                         /\ res' = Response(op, tok, "", req, 200, <<"Reply deleted">>, None)
                         /\ UNCHANGED <<app, posts, ioVars>>

\* the owner of the posts the replies are written under
PostOwner == [userId |-> "u1", userType |-> "user"]

\* the users who write the replies, and the users who write the sub-replies
ReplyAuthors == {[userId |-> "u2", userType |-> "user"]}
SubReplyAuthors == {[userId |-> "u2", userType |-> "user"], [userId |-> "u3", userType |-> "user"]}

NextReply ==
    \/ \E id \in PostIds : getRepliesByPost(id, None, None)
    \/ \E tok \in ReplyAuthors \cup {Anonymous}, id \in PostIds, c \in CommentInputs :
          createReply(tok, id, c)
    \/ \E tok \in SubReplyAuthors, id \in ReplyIds, c \in CommentInputs,
          parent \in ParentReplyIdInputs :
          createSubReply(tok, id, c, parent)
    \/ \E tok \in Requesters, id \in ReplyIds, path \in TargetPaths :
          deleteNestedReply(tok, id, path)
    \/ \E tok \in Requesters, id \in ReplyIds : deleteReply(tok, id)
    \/ createPost(PostOwner, Some("a"), Some("c"), None)
    \/ \E id \in PostIds : hidePost(PostOwner, id)
    \/ \E id \in PostIds : disableReplies(PostOwner, id)

SpecReply == Init /\ [][NextReply]_vars

----------------------------------------------------------------------------
(* controllers/comments.controller.js: the comments service keeps every      *)
(* reply as a document of the replies collection; a reply names its parent   *)
(* in parentReplyId and lists its children's ids in replies.  The posts      *)
(* live in the post service, which deleteComment asks for the owner.         *)

\* most replies in the collection
MaxComments == 3

\* uuidv4(): the ids, in the order they are handed out
ReplyIdSeq == <<"c1", "c2", "c3", "c4">>
CommentIds == {ReplyIdSeq[i] : i \in 1..MaxComments}

\* req.params.id
CommentPostIds == {"p1", "p2"}

\* userId of the post as the post service answers it
PostOwnerOf(postId) == "u1"

\* the outcomes of axios.get(`${POST_SERVICE_URL}/api/posts/${postId}`): the
\* owner of the post, or a failed request
PostServiceAnswers(postId) == {Some(PostOwnerOf(postId)), None}

\* bodyParentReplyId || req.query.parentId || null
ParentInputs == {None} \cup {Some(id) : id \in CommentIds}

\* new Reply(payload) with the defaults of the schema
NewComment(userId, postId, parentReplyId, comment) ==
    [userId |-> userId, postId |-> postId, parentReplyId |-> parentReplyId,
     comment |-> comment, isActive |-> TRUE, replies |-> << >>,
     isDeleted |-> FALSE, deletedAt |-> None, deletedBy |-> None]

\* uuidv4()
NewReplyId == ReplyIdSeq[Cardinality(DOMAIN replies) + 1]

\* { $push: { replies: id } }
Push(doc, id) == [doc EXCEPT !.replies = Append(@, id)]

\* { $pull: { replies: id } }
Pull(doc, id) == [doc EXCEPT !.replies = SelectSeq(@, LAMBDA x : x # id)]

\* { $set: { isDeleted: true, deletedAt, deletedBy, isActive: false, comment: '[deleted]' } }
MarkDeleted(doc, requesterId) ==
    [doc EXCEPT !.isDeleted = TRUE, !.deletedAt = Some(Now),
                !.deletedBy = Some(requesterId), !.isActive = FALSE,
                !.comment = "[deleted]"]

\* the document as a response carries it
CommentJSON(id) == [replyId |-> id, isActive |-> replies[id].isActive]

createComment(tok, postId, comment, parentReplyId) ==
    LET op == "createComment"
        req == [comment |-> comment, parentReplyId |-> parentReplyId]
    IN  /\ app = "comments"
        /\ IF ~Truthy(comment) \/ Trim(comment[1]) = ""
           THEN Refuse(op, tok, postId, req, 400, <<"comment is required">>)
           ELSE IF tok.userId = ""
           THEN Refuse(op, tok, postId, req, 401, <<"Unauthorized">>)
           ELSE IF Truthy(parentReplyId) /\ parentReplyId[1] \notin DOMAIN replies
           THEN Refuse(op, tok, postId, req, 400, <<"parentReplyId does not exist">>)
           ELSE IF Truthy(parentReplyId) /\ replies[parentReplyId[1]].postId # postId
           THEN Refuse(op, tok, postId, req, 400,
                       <<"parentReplyId does not belong to the same post">>)
           ELSE IF /\ Truthy(parentReplyId)
                   /\ \/ ~replies[parentReplyId[1]].isActive
                      \/ replies[parentReplyId[1]].isDeleted
           THEN Refuse(op, tok, postId, req, 400, <<"parent reply is not active">>)
           ELSE /\ Cardinality(DOMAIN replies) < MaxComments
                /\ LET id == NewReplyId
                       parent == IF Truthy(parentReplyId) THEN parentReplyId ELSE None
                       pushed == IF parent = None THEN replies
                                 ELSE [replies EXCEPT ![parent[1]] = Push(@, id)]
                   IN  /\ replies' = pushed @@
                              (id :> NewComment(tok.userId, postId, parent, Trim(comment[1])))
                       /\ res' = Response(op, tok, postId, req, 201, << >>, Some(id))
                /\ UNCHANGED <<app, posts, replyCount, ioVars>>

\* deleteComment, with the answers axios.get of the post service may give
deleteCommentAsking(tok, postId, replyId, answers) ==
    LET op == "deleteComment"
        req == [replyId |-> replyId]
    IN  /\ app = "comments"
        /\ IF tok.userId = ""
           THEN Refuse(op, tok, postId, req, 401, <<"Unauthorized">>)
           ELSE IF replyId \notin DOMAIN replies
           THEN Refuse(op, tok, postId, req, 404, <<"Reply not found">>)
           ELSE IF replies[replyId].isDeleted
           THEN /\ res' = Response(op, tok, postId, req, 200, << >>, Some(CommentJSON(replyId)))
                /\ UNCHANGED <<app, posts, replyVars, ioVars>>
           ELSE \E answer \in answers :
                  LET reply == replies[replyId]
                      allowed ==
                          IF reply.userId = tok.userId THEN TRUE
                          ELSE IF tok.userType \in {"admin", "superadmin"} THEN TRUE
                          ELSE Truthy(answer) /\ answer[1] = tok.userId
                  IN  IF ~allowed
                      THEN Refuse(op, tok, postId, req, 403,
                                  <<"Forbidden: not allowed to delete this reply">>)
                      ELSE LET marked == [replies EXCEPT ![replyId] = MarkDeleted(@, tok.userId)]
                               parent == reply.parentReplyId
                           IN  /\ replies' =
                                     IF Truthy(parent) /\ parent[1] \in DOMAIN replies
                                     THEN [marked EXCEPT ![parent[1]] = Pull(@, replyId)]
                                     ELSE marked
                               /\ res' = Response(op, tok, postId, req, 200, << >>,
                                             Some([replyId |-> replyId, isActive |-> FALSE]))
                               /\ UNCHANGED <<app, posts, replyCount, ioVars>>

deleteComment(tok, postId, replyId) ==
    deleteCommentAsking(tok, postId, replyId, PostServiceAnswers(postId))

\* deleteComment while the post service cannot be reached: axios.get rejects
deleteCommentUnreachable(tok, postId, replyId) ==
    deleteCommentAsking(tok, postId, replyId, {None})


\* $graphLookup from the replies collection: the documents reached from id
\* through parentReplyId, whatever their postId and isActive
RECURSIVE Descendants(_)
Descendants(id) ==
    LET children == {c \in DOMAIN replies : replies[c].parentReplyId = Some(id)}
    IN  children \cup UNION {Descendants(c) : c \in children}

\* the node of d with, in children, the nodes of the items that name d as
\* their parent; replies of one instant are sorted in no particular order
RECURSIVE Assembled(_, _)
Assembled(d, items) ==
    [replyId |-> d, isActive |-> replies[d].isActive,
     children |-> {Assembled(c, items) :
                      c \in {x \in items : replies[x].parentReplyId = Some(d)}}]

\* getRepliesTree, with the query it was asked with; no line of it reads
\* req.query
getRepliesTreeAsked(tok, postId, req) ==
    LET op == "getRepliesTree"
        rootsWithDesc == {id \in DOMAIN replies :
                             /\ replies[id].postId = postId
                             /\ replies[id].isActive = TRUE
                             /\ replies[id].parentReplyId = None}
        allDocs == {id \in DOMAIN replies :
                       replies[id].postId = postId /\ replies[id].isActive = TRUE}
        roots == {d \in allDocs : \/ ~Truthy(replies[d].parentReplyId)
                                  \/ replies[d].parentReplyId[1] \notin allDocs}
        data == IF rootsWithDesc = {}
                THEN {Assembled(d, allDocs) : d \in roots}
                ELSE {Assembled(root, {root} \cup Descendants(root)) : root \in rootsWithDesc}
    IN  /\ app = "comments"
        /\ res' = Response(op, tok, postId, req, 200, << >>, Some(data))
        /\ UNCHANGED <<app, posts, replyVars, ioVars>>

getRepliesTree(tok, postId) == getRepliesTreeAsked(tok, postId, NoReq)

\* GET /:id/replies?tree=true&maxDepth=n
getRepliesTreeMaxDepth(tok, postId, maxDepth) ==
    getRepliesTreeAsked(tok, postId, [tree |-> Some("true"), maxDepth |-> maxDepth])

\* The pages are asked for without page and limit, and hold every match:
\* limit is then 25 (10 for topLevelReplies), above MaxComments.
listReplies(tok, postId) ==
    LET op == "listReplies"
        items == {id \in DOMAIN replies :
                     replies[id].postId = postId /\ replies[id].isActive = TRUE}
    IN  /\ app = "comments"
        /\ res' = Response(op, tok, postId, NoReq, 200, << >>,
                     Some([replies |-> {CommentJSON(id) : id \in items},
                           total |-> Cardinality(items)]))
        /\ UNCHANGED <<app, posts, replyVars, ioVars>>

topLevelReplies(tok, postId) ==
    LET op == "topLevelReplies"
        docs == {id \in DOMAIN replies :
                    /\ replies[id].postId = postId
                    /\ replies[id].isActive = TRUE
                    /\ replies[id].parentReplyId = None}
        childCount(id) ==
            Cardinality({c \in DOMAIN replies :
                            replies[c].parentReplyId = Some(id) /\ replies[c].isActive = TRUE})
    IN  /\ app = "comments"
        /\ res' = Response(op, tok, postId, NoReq, 200, << >>,
                     Some([replies |-> {[replyId |-> id, isActive |-> replies[id].isActive,
                                         replyCount |-> childCount(id),
                                         hasChildren |-> childCount(id) > 0] : id \in docs},
                           total |-> Cardinality(docs)]))
        /\ UNCHANGED <<app, posts, replyVars, ioVars>>

listChildren(tok, postId, parentId) ==
    LET op == "listChildren"
        req == [parentId |-> parentId]
        items == {id \in DOMAIN replies :
                     /\ replies[id].postId = postId
                     /\ replies[id].parentReplyId = Some(parentId)
                     /\ replies[id].isActive = TRUE}
    IN  /\ app = "comments"
        /\ res' = Response(op, tok, postId, req, 200, << >>,
                     Some([replies |-> {CommentJSON(id) : id \in items},
                           total |-> Cardinality(items)]))
        /\ UNCHANGED <<app, posts, replyVars, ioVars>>

\* the user whose token the views are asked with
Reader == [userId |-> "u3", userType |-> "user"]

InitComments ==
    /\ app = "comments"
    /\ posts = << >>
    /\ res = Idle
    /\ replies = << >>
    /\ replyCount = [id \in PostIds |-> 0]
    /\ inflight = << >>
    /\ files = {}

NextComments ==
    \/ \E tok \in ReplyAuthors \cup {Anonymous}, postId \in CommentPostIds,
          c \in CommentInputs, parent \in ParentInputs :
          createComment(tok, postId, c, parent)
    \/ \E tok \in Requesters, postId \in CommentPostIds, id \in CommentIds :
          deleteComment(tok, postId, id)
    \/ \E postId \in CommentPostIds : getRepliesTree(Reader, postId)
    \/ \E postId \in CommentPostIds : listReplies(Reader, postId)
    \/ \E postId \in CommentPostIds : topLevelReplies(Reader, postId)
    \/ \E postId \in CommentPostIds, id \in CommentIds : listChildren(Reader, postId, id)

SpecComments == InitComments /\ [][NextComments]_vars

\* req.query.maxDepth
MaxDepthParams == {Some("1"), Some("2")}

\* the comments application asked for trees
NextTree ==
    \/ \E tok \in ReplyAuthors, postId \in PostIds, parent \in ParentInputs :
          createComment(tok, postId, Some("hi"), parent)
    \/ \E tok \in ReplyAuthors, postId \in PostIds, id \in CommentIds :
          deleteComment(tok, postId, id)
    \/ \E postId \in PostIds, maxDepth \in MaxDepthParams :
          getRepliesTreeMaxDepth(Reader, postId, maxDepth)

SpecTree == InitComments /\ [][NextTree]_vars

\* the comments application while the post service is down
NextPostServiceDown ==
    \/ \E tok \in ReplyAuthors, postId \in CommentPostIds, parent \in ParentInputs :
          createComment(tok, postId, Some("hi"), parent)
    \/ \E tok \in Requesters, postId \in CommentPostIds, id \in CommentIds :
          deleteCommentUnreachable(tok, postId, id)

SpecPostServiceDown == InitComments /\ [][NextPostServiceDown]_vars

----------------------------------------------------------------------------
(* The earlier comments controller: createComment and deleteComment only,   *)
(* with the requester in req.user.id.                                       *)

\* most replies in the collection of the earlier controller
MaxLegacyComments == 2

LegacyCreateComment(tok, postId, comment, parentReplyId) ==
    LET op == "createComment"
        req == [comment |-> comment, parentReplyId |-> parentReplyId]
    IN  /\ app = "comments.legacy"
        /\ IF ~Truthy(comment) \/ Trim(comment[1]) = ""
           THEN Refuse(op, tok, postId, req, 400, <<"comment is required">>)
           ELSE IF tok.userId = ""
           THEN Refuse(op, tok, postId, req, 401, <<"Unauthorized">>)
           ELSE /\ Cardinality(DOMAIN replies) < MaxLegacyComments
                /\ LET id == NewReplyId
                       parent == IF Truthy(parentReplyId) THEN parentReplyId ELSE None
                       pushed == IF parent = None \/ parent[1] \notin DOMAIN replies
                                 THEN replies
                                 ELSE [replies EXCEPT ![parent[1]] = Push(@, id)]
                   IN  /\ replies' = pushed @@
                              (id :> NewComment(tok.userId, postId, parent, Trim(comment[1])))
                       /\ res' = Response(op, tok, postId, req, 201, << >>, Some(id))
                /\ UNCHANGED <<app, posts, replyCount, ioVars>>

LegacyDeleteComment(tok, postId, replyId) ==
    LET op == "deleteComment"
        req == [replyId |-> replyId]
    IN  /\ app = "comments.legacy"
        /\ IF tok.userId = ""
           THEN Refuse(op, tok, postId, req, 401, <<"Unauthorized">>)
           ELSE IF replyId \notin DOMAIN replies
           THEN Refuse(op, tok, postId, req, 404, <<"Reply not found">>)
           ELSE IF replies[replyId].isDeleted
           THEN /\ res' = Response(op, tok, postId, req, 200, << >>, Some(CommentJSON(replyId)))
                /\ UNCHANGED <<app, posts, replyVars, ioVars>>
           ELSE \E answer \in PostServiceAnswers(postId) :
                  LET reply == replies[replyId]
                      allowed ==
                          IF reply.userId = tok.userId THEN TRUE
                          ELSE Truthy(answer) /\ answer[1] = tok.userId
                  IN  IF ~allowed
                      THEN Refuse(op, tok, postId, req, 403,
                                  <<"Forbidden: not allowed to delete this reply">>)
                      ELSE /\ replies' = [replies EXCEPT ![replyId] = MarkDeleted(@, tok.userId)]
                           /\ res' = Response(op, tok, postId, req, 200, << >>,
                                         Some([replyId |-> replyId, isActive |-> FALSE]))
                           /\ UNCHANGED <<app, posts, replyCount, ioVars>>

InitLegacyComments ==
    /\ app = "comments.legacy"
    /\ posts = << >>
    /\ res = Idle
    /\ replies = << >>
    /\ replyCount = [id \in PostIds |-> 0]
    /\ inflight = << >>
    /\ files = {}

NextLegacyComments ==
    \/ \E tok \in ReplyAuthors \cup {Anonymous}, postId \in CommentPostIds,
          c \in CommentInputs, parent \in ParentInputs :
          LegacyCreateComment(tok, postId, c, parent)
    \/ \E tok \in Requesters, postId \in CommentPostIds, id \in CommentIds :
          LegacyDeleteComment(tok, postId, id)

SpecLegacyComments == InitLegacyComments /\ [][NextLegacyComments]_vars

----------------------------------------------------------------------------
(* The two reply services side by side: the one that runs is the one of app *)

InitReplyServices == Init \/ InitComments

\* the requests that write: replies by their one author, deletes by every
\* requester
NextReplyServices ==
    \/ createPost(PostOwner, Some("a"), Some("c"), None)
    \/ \E tok \in ReplyAuthors, id \in PostIds : createReply(tok, id, Some("hi"))
    \/ \E tok \in ReplyAuthors, id \in ReplyIds : createSubReply(tok, id, Some("hi"), None)
    \/ \E tok \in Requesters, id \in ReplyIds, path \in TargetPaths :
          deleteNestedReply(tok, id, path)
    \/ \E tok \in Requesters, id \in ReplyIds : deleteReply(tok, id)
    \/ \E tok \in ReplyAuthors, postId \in PostIds, parent \in ParentInputs :
          createComment(tok, postId, Some("hi"), parent)
    \/ \E tok \in Requesters, postId \in PostIds, id \in CommentIds :
          deleteComment(tok, postId, id)

SpecReplyServices == InitReplyServices /\ [][NextReplyServices]_vars

\* the writers of replies together with the status changes of the post
NextReplyLife ==
    \/ createPost(PostOwner, Some("a"), Some("c"), None)
    \/ \E id \in PostIds : hidePost(PostOwner, id)
    \/ \E id \in PostIds : unhidePost(PostOwner, id)
    \/ \E id \in PostIds : deletePost(PostOwner, id)
    \/ \E tok \in ReplyAuthors, id \in PostIds : createReply(tok, id, Some("hi"))
    \/ \E tok \in ReplyAuthors, id \in ReplyIds : createSubReply(tok, id, Some("hi"), None)
    \/ \E tok \in ReplyAuthors, id \in ReplyIds, path \in TargetPaths :
          deleteNestedReply(tok, id, path)
    \/ \E tok \in ReplyAuthors, id \in ReplyIds : deleteReply(tok, id)
    \/ \E tok \in ReplyAuthors, postId \in PostIds, parent \in ParentInputs :
          createComment(tok, postId, Some("hi"), parent)
    \/ \E tok \in ReplyAuthors, postId \in PostIds, id \in CommentIds :
          deleteComment(tok, postId, id)

SpecReplyLife == InitReplyServices /\ [][NextReplyLife]_vars

----------------------------------------------------------------------------
(* Overlapping requests.  A handler of a status change awaits twice: at    *)
(* Post.findOne and at post.save().  Between the two another request may   *)
(* run.  The find step runs the handler up to its save: it answers a       *)
(* refusal at once, or keeps the loaded document with the assignments made *)
(* on it.  The save step writes the modified paths of that document and    *)
(* answers.  No schema sets optimisticConcurrency, and none of the paths   *)
(* is an array, so save() sends updateOne({_id}, {$set: modified paths})    *)
(* with no condition on the stored document.                               *)

\* the requests that may be under way together
Slots == {1, 2}

\* a request between its findOne and its save: post is the document as
\* loaded, doc the same document after the handler's assignments
Loaded(op, tok, id, req, post, doc) ==
    [op |-> op, tok |-> tok, id |-> id, req |-> req, post |-> post, doc |-> doc]

Await(slot, r) ==
    /\ inflight' = inflight @@ (slot :> r)
    /\ UNCHANGED <<app, posts, res, replyVars, files>>

\* the paths save() sends: those whose value the handler changed, and the
\* dates, since new Date() never equals the loaded value
modifiedPaths(r) ==
    {f \in DOMAIN r.doc : r.doc[f] # r.post[f]}
        \cup {"dateModified"}
        \cup (IF r.op = "banPost" THEN {"dateBanned"} ELSE {})
        \cup (IF r.op = "deletePost" THEN {"dateDeleted"} ELSE {})

\* post.save() of the loaded document, on the document stored by now
SaveLoaded(r) ==
    posts' = [posts EXCEPT ![r.id] =
                [f \in DOMAIN @ |->
                    IF f = "dateModified" THEN Now
                    ELSE IF f \in modifiedPaths(r) THEN r.doc[f]
                    ELSE @[f]]]

Done(slot) == inflight' = [s \in DOMAIN inflight \ {slot} |-> inflight[s]]

hidePostFind(slot, tok, id) ==
    LET op == "hidePost"
        gate == isOwnerOrAdmin(tok, id)
    IN  /\ app = "post.routes"
        /\ slot \notin DOMAIN inflight
        /\ IF gate # None
           THEN Refuse(op, tok, id, NoReq, gate[1][1], gate[1][2])
           ELSE IF id \notin DOMAIN posts
           THEN Refuse(op, tok, id, NoReq, 404, <<"Post not found">>)
           ELSE LET post == posts[id]
                    transition == validateStatusTransition(post.status, "hidden", tok.userType)
                IN  IF post.userId # tok.userId
                    THEN Refuse(op, tok, id, NoReq, 403,
                                <<"You do not have permission to hide this post">>)
                    ELSE IF ~transition.allowed
                    THEN Refuse(op, tok, id, NoReq, 400, transition.reason[1])
                    ELSE Await(slot, Loaded(op, tok, id, NoReq, post,
                                            [post EXCEPT !.status = "hidden"]))

banPostFind(slot, tok, id, reason) ==
    LET op == "banPost"
        req == [reason |-> reason]
        gate == isAdmin(tok)
    IN  /\ app = "post.routes"
        /\ slot \notin DOMAIN inflight
        /\ IF gate # None
           THEN Refuse(op, tok, id, req, gate[1][1], gate[1][2])
           ELSE IF id \notin DOMAIN posts
           THEN Refuse(op, tok, id, req, 404, <<"Post not found">>)
           ELSE LET post == posts[id]
                    transition == validateStatusTransition(post.status, "banned", tok.userType)
                IN  IF ~transition.allowed
                    THEN Refuse(op, tok, id, req, 400, transition.reason[1])
                    ELSE Await(slot, Loaded(op, tok, id, req, post,
                                            Banned(post, tok.userId, reason)))

deletePostFind(slot, tok, id) ==
    LET op == "deletePost"
        gate == isOwnerOrAdmin(tok, id)
    IN  /\ app = "post.routes"
        /\ slot \notin DOMAIN inflight
        /\ IF gate # None
           THEN Refuse(op, tok, id, NoReq, gate[1][1], gate[1][2])
           ELSE IF id \notin DOMAIN posts
           THEN Refuse(op, tok, id, NoReq, 404, <<"Post not found">>)
           ELSE LET post == posts[id]
                IN  IF post.userId # tok.userId /\ ~(tok.userType \in {"admin", "superadmin"})
                    THEN Refuse(op, tok, id, NoReq, 403,
                                <<"You do not have permission to delete this post">>)
                    ELSE Await(slot, Loaded(op, tok, id, NoReq, post, Deleted(post)))

\* await post.save() of hidePost and banPost, then res.status(200) with
\* post.toJSON(): the document in memory, not the stored one
statusSave(slot) ==
    /\ slot \in DOMAIN inflight
    /\ inflight[slot].op \in {"hidePost", "banPost"}
    /\ LET r == inflight[slot]
       IN  /\ SaveLoaded(r)
           /\ res' = Response(r.op, r.tok, r.id, r.req, 200, << >>,
                              Some([r.doc EXCEPT !.dateModified = Now]))
    /\ Done(slot)
    /\ UNCHANGED <<app, replyVars, files>>

\* await post.save() of deletePost, then res.status(200) with the message
deletePostSave(slot) ==
    /\ slot \in DOMAIN inflight
    /\ inflight[slot].op = "deletePost"
    /\ LET r == inflight[slot]
       IN  /\ SaveLoaded(r)
           /\ res' = Response(r.op, r.tok, r.id, r.req, 200,
                              <<"Post deleted successfully">>, None)
    /\ Done(slot)
    /\ UNCHANGED <<app, replyVars, files>>

\* the reasons of the overlapping bans
OverlapReasons == {None, Some("spam")}

NextOverlap ==
    \/ \E tok \in Tokens : createPost(tok, Some("a"), Some("c"), None)
    \/ \E slot \in Slots, tok \in Tokens, id \in PostIds : hidePostFind(slot, tok, id)
    \/ \E slot \in Slots, tok \in Tokens, id \in PostIds, reason \in OverlapReasons :
          banPostFind(slot, tok, id, reason)
    \/ \E slot \in Slots, tok \in Tokens, id \in PostIds : deletePostFind(slot, tok, id)
    \/ \E slot \in Slots : statusSave(slot)
    \/ \E slot \in Slots : deletePostSave(slot)

SpecOverlap == Init /\ [][NextOverlap]_vars

----------------------------------------------------------------------------
(* The reply collaborator behind getPostById: services/reply.service.js   *)
(* and its variant with several candidate endpoints.  An answer is what    *)
(* axios.get gives: a rejection (timeout after REQUEST_TIMEOUT, connection *)
(* refused, a status outside 2xx) or a response with a body.               *)

\* the reply lists a body may carry
ReplyLists == {<< >>, <<"r1">>}

Rejection(code) == [kind |-> code, shape |-> "", success |-> FALSE, payload |-> None]
Body(shape, success, payload) ==
    [kind |-> "ok", shape |-> shape, success |-> success, payload |-> payload]

\* response.data: nothing, an array, {replies: [...]}, or the envelope
\* {success, data} whose data is missing, an object with or without
\* replies, or an array
Failures == {Rejection("ETIMEDOUT"), Rejection("ECONNREFUSED"), Rejection("ERR_BAD_RESPONSE")}

Bodies ==
    {Body("empty", FALSE, None)}
        \cup {Body("array", FALSE, Some(l)) : l \in ReplyLists}
        \cup {Body("replies", FALSE, Some(l)) : l \in ReplyLists}
        \cup {Body("envelope", s, None) : s \in BOOLEAN}
        \cup {Body("envelope.object", s, None) : s \in BOOLEAN}
        \cup {Body("envelope.replies", s, Some(l)) : s \in BOOLEAN, l \in ReplyLists}
        \cup {Body("envelope.array", s, Some(l)) : s \in BOOLEAN, l \in ReplyLists}

ReplyServiceAnswers == Failures \cup Bodies

\* what an async function settles with
Resolved(value) == [kind |-> "return", value |-> value]
Rejected == [kind |-> "throw", value |-> << >>]

\* the catch block left out
getRepliesForPost_Mutant(answer) ==
    IF answer.kind # "ok" THEN Rejected
    ELSE IF answer.shape = "envelope" /\ answer.success THEN Rejected
    ELSE IF answer.shape = "envelope.replies" /\ answer.success
    THEN Resolved(answer.payload[1])
    ELSE Resolved(<< >>)

\* services/reply.service.js
getRepliesForPost(answer) ==
    IF answer.kind # "ok"
    THEN Resolved(<< >>)                         \* catch: return []
    ELSE IF answer.shape \in {"empty", "array", "replies"} \/ ~answer.success
    THEN Resolved(<< >>)
    ELSE IF answer.shape = "envelope"
    THEN Resolved(<< >>)                         \* TypeError on data.replies, caught
    ELSE IF answer.shape = "envelope.replies"
    THEN Resolved(answer.payload[1])             \* an empty list is truthy
    ELSE Resolved(<< >>)                         \* replies is undefined: || []

\* the endpoints the variant tries in turn
candidates ==
    <<"/api/replies?postId=", "/posts/:postId/replies", "/posts/:postId/comments",
      "/replies/post/:postId", "/api/posts/:postId/replies">>

\* what the variant makes of one response: None is "try the next one"
Usable(answer) ==
    IF answer.kind # "ok" \/ answer.shape = "empty" THEN None
    ELSE IF answer.success /\ answer.shape \in {"envelope.replies", "envelope.array"}
    THEN answer.payload
    ELSE IF answer.shape \in {"array", "replies"} THEN answer.payload
    ELSE None

RECURSIVE FirstUsable(_, _)
FirstUsable(answers, i) ==
    IF i > Len(candidates) THEN << >>
    ELSE IF Usable(answers[i]) # None THEN Usable(answers[i])[1]
    ELSE FirstUsable(answers, i + 1)

\* getRepliesForPost of the variant with candidate endpoints
getRepliesForPostCandidates(answers) == Resolved(FirstUsable(answers, 1))

\* controllers/post.controller.js getPostById with its call of the reply
\* service: data is {...post, replies}
getPostByIdReplies(tok, id, answer) ==
    LET op == "getPostById"
        req == [answer |-> answer]
    IN  /\ app = "post.routes"
        /\ IF id \notin DOMAIN posts
           THEN Refuse(op, tok, id, req, 404, <<"Post not found">>)
           ELSE IF ~canViewPost(posts[id], tok.userId, tok.userType)
           THEN Refuse(op, tok, id, req, 403,
                       <<"You do not have permission to view this post">>)
           ELSE LET fetched == getRepliesForPost(answer)
                    \* let replies = []; try { replies = await ... } catch { }
                    list == IF fetched.kind = "return" THEN fetched.value ELSE << >>
                IN  /\ res' = Response(op, tok, id, req, 200, << >>,
                                       Some([post |-> posts[id], replies |-> list]))
                    /\ UNCHANGED <<app, posts, replyVars, ioVars>>

getRepliesForPostCall(answer) ==
    /\ res' = Call("getRepliesForPost", [answer |-> answer], getRepliesForPost(answer))
    /\ UNCHANGED <<app, posts, replyVars, ioVars>>

\* the answers the candidate endpoints are tried with
CandidateAnswers ==
    {Rejection("ETIMEDOUT"), Rejection("ERR_BAD_RESPONSE"),
     Body("array", FALSE, Some(<<"r1">>))}

getRepliesForPostCandidatesCall(answers) ==
    /\ res' = Call("getRepliesForPostCandidates", [answers |-> answers],
                   getRepliesForPostCandidates(answers))
    /\ UNCHANGED <<app, posts, replyVars, ioVars>>

NextReplyClient ==
    \/ \E pub \in PublishInputs : createPost(PostOwner, Some("a"), Some("c"), pub)
    \/ \E id \in PostIds : hidePost(PostOwner, id)
    \/ \E id \in PostIds : deletePost(PostOwner, id)
    \/ \E tok \in Tokens, id \in PostIds, answer \in ReplyServiceAnswers :
          getPostByIdReplies(tok, id, answer)
    \/ \E answer \in ReplyServiceAnswers : getRepliesForPostCall(answer)
    \/ \E answers \in [1..Len(candidates) -> CandidateAnswers] :
          getRepliesForPostCandidatesCall(answers)

SpecReplyClient == Init /\ [][NextReplyClient]_vars

----------------------------------------------------------------------------
(* createPost and updatePost with multipart files, and the file service    *)
(* client they call.  The file service stores an object per accepted       *)
(* upload; a URL is the number of the upload.                              *)

\* files of one field of a request, and URLs the file service ever issues
MaxFiles == 2
MaxUrls == 4

\* what the file service does with one upload
UploadOutcomes == {"stored", "failed"}

\* req.files.images / req.files.attachments: one outcome per file
Batches == UNION {[1..n -> UploadOutcomes] : n \in 0..MaxFiles}

\* the URLs a post refers to
Referenced ==
    UNION {{posts[id].images[i] : i \in DOMAIN posts[id].images}
             \cup {posts[id].attachments[i] : i \in DOMAIN posts[id].attachments}
           : id \in DOMAIN posts}

\* the last URL issued
LastUrl(stored) ==
    LET used == stored \cup Referenced \cup {0}
    IN  CHOOSE n \in used : \A m \in used : m <= n

\* uploadFiles: the files go up one after the other; the first rejected
\* upload throws out of the loop, the files stored before it stay stored
uploadFiles(batch, stored) ==
    LET failed == {i \in DOMAIN batch : batch[i] = "failed"}
        done == IF failed = {} THEN Len(batch)
                ELSE (CHOOSE i \in failed : \A j \in failed : i <= j) - 1
        last == LastUrl(stored)
    IN  [kind |-> IF failed = {} THEN "return" ELSE "throw",
         urls |-> IF failed = {} THEN [i \in 1..Len(batch) |-> last + i] ELSE << >>,
         stored |-> stored \cup {last + i : i \in 1..done}]

\* deleteFiles: a failed delete is logged and swallowed
deleteFiles(urls, stored, deleted) ==
    IF deleted THEN stored \ {urls[i] : i \in DOMAIN urls} ELSE stored

\* the request fits the URLs left
Fits(images, attachments) ==
    LastUrl(files) + Len(images) + Len(attachments) <= MaxUrls

createPostFiles(tok, title, content, publishParam, images, attachments, deleted, saved) ==
    LET op == "createPost"
        req == [title |-> title, content |-> content, publish |-> publishParam,
                images |-> images, attachments |-> attachments]
        publish == publishParam # Some("false")
    IN  /\ app = "post.routes"
        /\ Fits(images, attachments)
        /\ IF publish /\ (~Truthy(title) \/ ~Truthy(content))
           THEN Refuse(op, tok, "", req, 400, <<"Title and content are required to publish">>)
           ELSE \E postId \in PostIds \ DOMAIN posts :
                  LET imgs == uploadFiles(images, files)
                      atts == uploadFiles(attachments, imgs.stored)
                  IN  IF imgs.kind = "throw"
                      THEN /\ files' = imgs.stored
                           /\ res' = Response(op, tok, postId, req, 500,
                                              <<"Failed to upload images: ">>, None)
                           /\ UNCHANGED <<app, posts, replyVars, inflight>>
                      ELSE IF atts.kind = "throw"
                      THEN /\ files' = deleteFiles(imgs.urls, atts.stored, deleted)
                           /\ res' = Response(op, tok, postId, req, 500,
                                              <<"Failed to upload attachments: ">>, None)
                           /\ UNCHANGED <<app, posts, replyVars, inflight>>
                      ELSE IF ~saved
                      THEN \* newPost.save() rejects: next(error)
                           /\ files' = atts.stored
                           /\ res' = Response(op, tok, postId, req, 500, << >>, None)
                           /\ UNCHANGED <<app, posts, replyVars, inflight>>
                      ELSE /\ files' = atts.stored
                           /\ posts' = posts @@ (postId :>
                                [NewPost(tok.userId, title, content,
                                         IF publish THEN "published" ELSE "unpublished")
                                 EXCEPT !.images = imgs.urls, !.attachments = atts.urls])
                           /\ res' = Response(op, tok, postId, req, 201, << >>,
                                              Some(posts'[postId]))
                           /\ UNCHANGED <<app, replyVars, inflight>>

\* without removeImages/removeAttachments
updatePostFiles(tok, id, title, content, images, attachments, saved) ==
    LET op == "updatePost"
        req == [title |-> title, content |-> content,
                images |-> images, attachments |-> attachments]
        gate == isOwnerOrAdmin(tok, id)
    IN  /\ app = "post.routes"
        /\ Fits(images, attachments)
        /\ IF gate # None
           THEN Refuse(op, tok, id, req, gate[1][1], gate[1][2])
           ELSE IF id \notin DOMAIN posts
           THEN Refuse(op, tok, id, req, 404, <<"Post not found">>)
           ELSE LET post == posts[id]
                    imgs == uploadFiles(images, files)
                    atts == uploadFiles(attachments, imgs.stored)
                IN  IF ~canModifyPost(post, tok.userId, tok.userType)
                    THEN Refuse(op, tok, id, req, 403,
                                <<"Cannot modify post with current status">>)
                    ELSE IF imgs.kind = "throw"
                    THEN /\ files' = imgs.stored
                         /\ res' = Response(op, tok, id, req, 500,
                                            <<"Failed to upload new images: ">>, None)
                         /\ UNCHANGED <<app, posts, replyVars, inflight>>
                    ELSE IF atts.kind = "throw"
                    THEN /\ files' = atts.stored
                         /\ res' = Response(op, tok, id, req, 500,
                                            <<"Failed to upload new attachments: ">>, None)
                         /\ UNCHANGED <<app, posts, replyVars, inflight>>
                    ELSE IF ~saved
                    THEN /\ files' = atts.stored
                         /\ res' = Response(op, tok, id, req, 500, << >>, None)
                         /\ UNCHANGED <<app, posts, replyVars, inflight>>
                    ELSE /\ files' = atts.stored
                         /\ Save(id, [post EXCEPT
                                 !.title = IF Truthy(title) THEN SetTitle(title) ELSE @,
                                 !.content = IF Truthy(content) THEN content ELSE @,
                                 !.images = @ \o imgs.urls,
                                 !.attachments = @ \o atts.urls])
                         /\ res' = Response(op, tok, id, req, 200, << >>, Some(posts'[id]))
                         /\ UNCHANGED <<app, replyVars, inflight>>

NextFiles ==
    \/ \E images \in Batches, attachments \in Batches, deleted \in BOOLEAN, saved \in BOOLEAN :
          createPostFiles(PostOwner, Some("a"), Some("c"), None,
                          images, attachments, deleted, saved)
    \/ \E images \in Batches, attachments \in Batches, saved \in BOOLEAN :
          updatePostFiles(PostOwner, "p1", None, None, images, attachments, saved)

SpecFiles == Init /\ [][NextFiles]_vars

----------------------------------------------------------------------------
(* The comments controller that keeps the replies embedded in the post     *)
(* document (post.replies), with overlapping requests.  createComment      *)
(* awaits at Post.findOne and at post.save().  post.replies.push alone is   *)
(* saved as $push with an increment of __v; together with                  *)
(* parent.replies.push, a change below the pushed array, the document      *)
(* array is saved whole with $set under a condition on the loaded __v, and *)
(* a save that finds another __v rejects with a VersionError.              *)

\* uuidv4()
EmbeddedIds == {"e1", "e2", "e3"}

\* the post document as the reply service finds it before any reply
EmbeddedPost == [userId |-> "u1", replies |-> << >>, v |-> 0]

\* newReply
NewEmbedded(replyId, userId, parentReplyId, comment) ==
    [replyId |-> replyId, userId |-> userId, parentReplyId |-> parentReplyId,
     comment |-> comment, isActive |-> TRUE, isDeleted |-> FALSE, replies |-> << >>]

\* post.replies.find(r => r.replyId === replyId): the index, 0 when absent
FindEmbedded(list, replyId) ==
    IF \E i \in DOMAIN list : list[i].replyId = replyId
    THEN CHOOSE i \in DOMAIN list :
            /\ list[i].replyId = replyId
            /\ \A j \in DOMAIN list : list[j].replyId = replyId => i <= j
    ELSE 0

\* the ids in use, stored or about to be
EmbeddedInUse ==
    UNION {{posts[p].replies[i].replyId : i \in DOMAIN posts[p].replies} : p \in DOMAIN posts}
        \cup {inflight[s].new.replyId : s \in DOMAIN inflight}

EmbeddedCreateCommentFind(slot, tok, postId, comment, parentReplyId) ==
    LET op == "createComment"
        req == [comment |-> comment, parentReplyId |-> parentReplyId]
    IN  /\ app = "comments.embedded"
        /\ slot \notin DOMAIN inflight
        /\ IF ~Truthy(comment)
           THEN Refuse(op, tok, postId, req, 400, <<"comment is required">>)
           ELSE IF tok.userId = ""
           THEN Refuse(op, tok, postId, req, 401, <<"Unauthorized">>)
           ELSE IF postId \notin DOMAIN posts
           THEN Refuse(op, tok, postId, req, 404, <<"Post not found">>)
           ELSE LET post == posts[postId]
                    at == IF Truthy(parentReplyId)
                          THEN FindEmbedded(post.replies, parentReplyId[1]) ELSE 0
                IN  IF Truthy(parentReplyId) /\ at = 0
                    THEN Refuse(op, tok, postId, req, 400,
                                <<"parentReplyId does not exist on this post">>)
                    ELSE IF Truthy(parentReplyId)
                            /\ (~post.replies[at].isActive \/ post.replies[at].isDeleted)
                    THEN Refuse(op, tok, postId, req, 400, <<"parent reply is not active">>)
                    ELSE \E replyId \in EmbeddedIds \ EmbeddedInUse :
                           LET new == NewEmbedded(replyId, tok.userId,
                                          IF Truthy(parentReplyId) THEN parentReplyId ELSE None,
                                          comment[1])
                               pushed == Append(post.replies, new)
                           IN  Await(slot,
                                  [op |-> op, tok |-> tok, id |-> postId, req |-> req,
                                   post |-> post, new |-> new,
                                   doc |-> [post EXCEPT !.replies =
                                              IF at = 0 THEN pushed
                                              ELSE [pushed EXCEPT ![at].replies =
                                                       Append(@, replyId)]]])

\* await post.save(), then 201; a rejected save goes to next(err)
EmbeddedCreateCommentSave(slot) ==
    /\ app = "comments.embedded"
    /\ slot \in DOMAIN inflight
    /\ LET r == inflight[slot]
           stored == posts[r.id]
       IN  IF ~Truthy(r.req.parentReplyId)
           THEN /\ posts' = [posts EXCEPT ![r.id] =
                               [stored EXCEPT !.replies = Append(@, r.new), !.v = @ + 1]]
                /\ res' = Response(r.op, r.tok, r.id, r.req, 201, << >>, Some(r.new))
           ELSE IF stored.v = r.post.v
           THEN /\ posts' = [posts EXCEPT ![r.id] =
                               [stored EXCEPT !.replies = r.doc.replies, !.v = @ + 1]]
                /\ res' = Response(r.op, r.tok, r.id, r.req, 201, << >>, Some(r.new))
           ELSE /\ posts' = posts
                /\ res' = Response(r.op, r.tok, r.id, r.req, 500, <<"VersionError">>, None)
    /\ Done(slot)
    /\ UNCHANGED <<app, replyVars, files>>

InitEmbedded ==
    /\ app = "comments.embedded"
    /\ posts = [id \in PostIds |-> EmbeddedPost]
    /\ res = Idle
    /\ replies = << >>
    /\ replyCount = [id \in PostIds |-> 0]
    /\ inflight = << >>
    /\ files = {}

NextEmbedded ==
    \/ \E slot \in Slots, tok \in SubReplyAuthors \cup {Anonymous}, postId \in CommentPostIds,
          c \in CommentInputs, parent \in {None} \cup {Some(id) : id \in EmbeddedIds} :
          EmbeddedCreateCommentFind(slot, tok, postId, c, parent)
    \/ \E slot \in Slots : EmbeddedCreateCommentSave(slot)

SpecEmbedded == InitEmbedded /\ [][NextEmbedded]_vars

----------------------------------------------------------------------------
(* createReply and deleteReply when one of their writes is rejected.  A    *)
(* rejected reply.save() goes to next(err).  A rejected                    *)
(* Post.findOneAndUpdate is swallowed by .catch(()=>{}) and the handler    *)
(* answers as if the $inc had been applied.  req keeps the write that      *)
(* failed.                                                                 *)

WriteFailures == {"reply.save", "Post.findOneAndUpdate"}

createReplyPartial(tok, postId, comment, failure) ==
    LET op == "createReply"
        req == [comment |-> comment, failure |-> failure]
    IN  /\ app = "post.routes"
        /\ tok.userId # "" /\ Truthy(comment)
        /\ postId \in DOMAIN posts
        /\ posts[postId].status = "published" /\ ~posts[postId].isArchived
        /\ IF failure = "reply.save"
           THEN Refuse(op, tok, postId, req, 500, << >>)
           ELSE \E id \in ReplyIds \ DOMAIN replies :
                  /\ replies' = replies @@ (id :> NewReply(tok.userId, postId, comment[1]))
                  /\ res' = Response(op, tok, postId, req, 201,
                                     <<"Reply created successfully">>, Some(id))
                  /\ UNCHANGED <<app, posts, replyCount, ioVars>>

deleteReplyPartial(tok, id, failure) ==
    LET op == "deleteReply"
        req == [id |-> id, failure |-> failure]
    IN  /\ app = "post.routes"
        /\ id \in DOMAIN replies
        /\ LET reply == replies[id]
               isReplyOwner == reply.userId = tok.userId
               isPostOwner == /\ reply.postId \in DOMAIN posts
                              /\ posts[reply.postId].userId = tok.userId
               admin == tok.userType \in {"admin", "superadmin"}
           IN  /\ isReplyOwner \/ isPostOwner \/ admin
               /\ IF failure = "reply.save"
                  THEN Refuse(op, tok, "", req, 500, << >>)
                  ELSE /\ replies' = [replies EXCEPT ![id] = SoftDeleted(reply)]
                       /\ res' = Response(op, tok, "", req, 200, <<"Reply deleted">>, None)
                       /\ UNCHANGED <<app, posts, replyCount, ioVars>>

\* The requests of the reply routes with their partial failures.  The
\* server answers every request it receives, so some request is always
\* handled: weak fairness of the whole next-state relation.
NextPartial ==
    \/ createPost(PostOwner, Some("a"), Some("c"), None)
    \/ \E id \in PostIds, pg \in PageParams : getRepliesByPost(id, pg, None)
    \/ \E tok \in ReplyAuthors, id \in PostIds : createReply(tok, id, Some("hi"))
    \/ \E tok \in ReplyAuthors, id \in ReplyIds : deleteReply(tok, id)
    \/ \E tok \in ReplyAuthors, id \in PostIds, failure \in WriteFailures :
          createReplyPartial(tok, id, Some("hi"), failure)
    \/ \E tok \in ReplyAuthors, id \in ReplyIds, failure \in WriteFailures :
          deleteReplyPartial(tok, id, failure)

SpecPartial == Init /\ [][NextPartial]_vars /\ WF_vars(NextPartial)

----------------------------------------------------------------------------
(* deleteComment of comments.controller.js around its await of the post     *)
(* service: the request is sent, the post service answers or does not, the  *)
(* handler goes on once the promise has settled.                            *)

\* the users who ask for the delete of a reply of u2
LookupRequesters == {PostOwner, [userId |-> "u2", userType |-> "user"], [userId |-> "u3", userType |-> "user"]}

\* deleteComment up to await axios.get(url): no option of the call bounds the
\* wait.  A request that needs no lookup is answered at once.
deleteCommentSend(slot, tok, postId, replyId) ==
    /\ app = "comments"
    /\ slot \notin DOMAIN inflight
    /\ IF /\ tok.userId # ""
          /\ replyId \in DOMAIN replies
          /\ ~replies[replyId].isDeleted
          /\ replies[replyId].userId # tok.userId
          /\ tok.userType \notin {"admin", "superadmin"}
       THEN Await(slot, [op |-> "deleteComment", tok |-> tok, id |-> postId,
                         req |-> [replyId |-> replyId],
                         settled |-> FALSE, answer |-> None])
       ELSE deleteCommentAsking(tok, postId, replyId, {None})

\* the post service answers the lookup, or the request fails: the promise
\* settles
postServiceAnswers(slot, answer) ==
    /\ slot \in DOMAIN inflight
    /\ ~inflight[slot].settled
    /\ inflight' = [inflight EXCEPT ![slot].settled = TRUE, ![slot].answer = answer]
    /\ UNCHANGED <<app, posts, res, replyVars, files>>

\* deleteComment after the await
deleteCommentResume(slot) ==
    /\ slot \in DOMAIN inflight
    /\ inflight[slot].settled
    /\ LET r == inflight[slot]
           replyId == r.req.replyId
           allowed == Truthy(r.answer) /\ r.answer[1] = r.tok.userId
           marked == [replies EXCEPT ![replyId] = MarkDeleted(@, r.tok.userId)]
           parent == replies[replyId].parentReplyId
       IN  /\ IF ~allowed
              THEN /\ res' = Response(r.op, r.tok, r.id, r.req, 403,
                                 <<"Forbidden: not allowed to delete this reply">>, None)
                   /\ UNCHANGED replies
              ELSE /\ replies' =
                         IF Truthy(parent) /\ parent[1] \in DOMAIN replies
                         THEN [marked EXCEPT ![parent[1]] = Pull(@, replyId)]
                         ELSE marked
                   /\ res' = Response(r.op, r.tok, r.id, r.req, 200, << >>,
                                 Some([replyId |-> replyId, isActive |-> FALSE]))
           /\ Done(slot)
           /\ UNCHANGED <<app, posts, replyCount, files>>

\* one request waits at a time
LookupSlots == {1}

NextLookup ==
    \/ \E tok \in ReplyAuthors, postId \in PostIds, parent \in ParentInputs :
          createComment(tok, postId, Some("hi"), parent)
    \/ \E slot \in LookupSlots, tok \in LookupRequesters, postId \in PostIds, id \in CommentIds :
          deleteCommentSend(slot, tok, postId, id)
    \/ \E slot \in LookupSlots, postId \in PostIds :
          \E answer \in PostServiceAnswers(postId) : postServiceAnswers(slot, answer)
    \/ \E slot \in LookupSlots : deleteCommentResume(slot)

\* the event loop runs the continuation of a settled promise; nothing makes
\* the post service answer
SpecLookup ==
    InitComments /\ [][NextLookup]_vars
    /\ WF_vars(\E slot \in LookupSlots : deleteCommentResume(slot))

----------------------------------------------------------------------------
(* createComment of comments.controller.js in two steps: the checks with    *)
(* the parent read by findOne().lean(), then the transaction that saves the *)
(* reply and pushes its id.  Other requests run between the two.            *)

\* createComment up to session.withTransaction
createCommentFind(slot, tok, postId, comment, parentReplyId) ==
    LET op == "createComment"
        req == [comment |-> comment, parentReplyId |-> parentReplyId]
    IN  /\ app = "comments"
        /\ slot \notin DOMAIN inflight
        /\ IF ~Truthy(comment) \/ Trim(comment[1]) = ""
           THEN Refuse(op, tok, postId, req, 400, <<"comment is required">>)
           ELSE IF tok.userId = ""
           THEN Refuse(op, tok, postId, req, 401, <<"Unauthorized">>)
           ELSE IF Truthy(parentReplyId) /\ parentReplyId[1] \notin DOMAIN replies
           THEN Refuse(op, tok, postId, req, 400, <<"parentReplyId does not exist">>)
           ELSE IF Truthy(parentReplyId) /\ replies[parentReplyId[1]].postId # postId
           THEN Refuse(op, tok, postId, req, 400,
                       <<"parentReplyId does not belong to the same post">>)
           ELSE IF /\ Truthy(parentReplyId)
                   /\ \/ ~replies[parentReplyId[1]].isActive
                      \/ replies[parentReplyId[1]].isDeleted
           THEN Refuse(op, tok, postId, req, 400, <<"parent reply is not active">>)
           ELSE /\ Cardinality(DOMAIN replies) + Cardinality(DOMAIN inflight) < MaxComments
                /\ Await(slot, [op |-> op, tok |-> tok, id |-> postId, req |-> req,
                                payload |-> NewComment(tok.userId, postId,
                                               IF Truthy(parentReplyId) THEN parentReplyId
                                               ELSE None,
                                               Trim(comment[1]))])

\* the transaction of createComment, or its fallback: r.save() and the $push
\* on the parent, whatever the parent has become
createCommentCommit(slot) ==
    /\ slot \in DOMAIN inflight
    /\ inflight[slot].op = "createComment"
    /\ LET r == inflight[slot]
           id == NewReplyId
           parent == r.payload.parentReplyId
           pushed == IF parent = None THEN replies
                     ELSE [replies EXCEPT ![parent[1]] = Push(@, id)]
       IN  /\ replies' = pushed @@ (id :> r.payload)
           /\ res' = Response(r.op, r.tok, r.id, r.req, 201, << >>, Some(id))
    /\ Done(slot)
    /\ UNCHANGED <<app, posts, replyCount, files>>

NextCommentOverlap ==
    \/ \E slot \in Slots, tok \in ReplyAuthors, postId \in PostIds, parent \in ParentInputs :
          createCommentFind(slot, tok, postId, Some("hi"), parent)
    \/ \E slot \in Slots : createCommentCommit(slot)
    \/ \E tok \in ReplyAuthors, postId \in PostIds, id \in CommentIds :
          deleteComment(tok, postId, id)

SpecCommentOverlap == InitComments /\ [][NextCommentOverlap]_vars

----------------------------------------------------------------------------
(* The transition table of the specification, as edges *)

OwnerEdges ==
    {<<"unpublished", "published">>, <<"unpublished", "deleted">>,
     <<"published", "hidden">>, <<"published", "deleted">>,
     <<"hidden", "published">>, <<"hidden", "deleted">>,
     <<"banned", "deleted">>}

AdminEdges ==
    {<<"published", "banned">>, <<"hidden", "banned">>,
     <<"banned", "published">>, <<"deleted", "published">>}

EdgesFor(userType) == IF userType \in {"admin", "superadmin"} THEN AdminEdges ELSE OwnerEdges

----------------------------------------------------------------------------
(* C1 *)

C1_DecidesByTableOnPlainKeys ==
    (res.op = "validateStatusTransition" /\ res.req.currentStatus \notin ObjectPrototypeKeys) =>
        /\ res.ret.kind = "return"
        /\ res.ret.allowed <=>
              <<res.req.currentStatus, res.req.targetStatus>> \in EdgesFor(res.req.userType)

----------------------------------------------------------------------------
(* C2 *)

\* C2: every change of a post's status moves it along an edge of the
\* transition table of the acting user's role, and a request whose
\* transition the table does not list leaves the post unchanged.
C2_StatusMovesOnlyAlongTable ==
    [][\A id \in DOMAIN posts :
          LET edge == <<posts[id].status, posts'[id].status>>
          IN  /\ posts'[id].status # posts[id].status => edge \in EdgesFor(res'.userType)
              /\ (res'.op = "deletePost" /\ res'.postId = id
                    /\ <<posts[id].status, "deleted">> \notin EdgesFor(res'.userType))
                 => posts'[id] = posts[id]]_vars

----------------------------------------------------------------------------
(* Vocabulary of the claims about the handlers *)

IsAdminRole(userType) == userType \in {"admin", "superadmin"}

\* the last request was op on the existing post id
Handled(op, id) == res.op = op /\ res.postId = id /\ id \in DOMAIN posts

\* this step handles op on post id, which existed before it
Handles(op, id) == res'.op = op /\ res'.postId = id /\ id \in DOMAIN posts

IsEmpty(s) == s = None \/ s = Some("")

----------------------------------------------------------------------------
(* C3 *)

ViewTable(status, owner, admin) ==
    CASE status = "published"                  -> TRUE
      [] status \in {"unpublished", "hidden"}  -> owner
      [] status \in {"banned", "deleted"}      -> owner \/ admin
      [] OTHER                                 -> FALSE

----------------------------------------------------------------------------
(* C4 *)

Modifiable == {"unpublished", "published", "hidden"}

\* C4: title and content of a post change only in an updatePost by the
\* owner while the status is unpublished, published or hidden; updatePost
\* by anyone else, or on a banned or deleted post, is refused and leaves
\* the post as it was.
C4_OnlyOwnerEditsLivePost ==
    [][\A id \in DOMAIN posts :
          LET old == posts[id]
              new == posts'[id]
              permitted == old.userId = res'.userId /\ old.status \in Modifiable
          IN  /\ (new.title # old.title \/ new.content # old.content)
                    => Handles("updatePost", id) /\ permitted /\ res'.code = 200
              /\ (Handles("updatePost", id) /\ ~permitted)
                    => res'.code = 403 /\ new = old]_vars

\* the owner is refused on a post that was banned
C4_Witness ==
    \E id \in PostIds :
        /\ Handled("updatePost", id)
        /\ posts[id].status = "banned"
        /\ posts[id].userId = res.userId
        /\ Truthy(res.req.title)
        /\ res.code = 403

----------------------------------------------------------------------------
(* C5 *)

AdminListed == {"published", "banned", "deleted"}

\* C5: for an admin, buildVisibilityFilter admits exactly published,
\* banned and deleted when no status is requested, exactly the requested
\* status when it is one of those three, and nothing when the requested
\* status is outside that set.
C5_AdminFilter ==
    (res.op = "buildVisibilityFilter" /\ IsAdminRole(res.req.userType)) =>
        LET requested == res.req.specificStatus
        IN  FilterStatuses(res.ret) =
               IF ~Truthy(requested) THEN AdminListed
               ELSE IF requested[1] \in AdminListed THEN {requested[1]}
               ELSE {}

----------------------------------------------------------------------------
(* C6 *)

----------------------------------------------------------------------------
(* C7 *)

RequiredToPublish == <<"Title and content are required to publish">>

\* C7: publishPost on a post whose title or content is empty is refused and
\* leaves the post as it was, also when the table lets the actor publish;
\* the refusal then carries its own message, which no transition denial has.
C7_EmptyPostIsNeverPublished ==
    [][\A id \in DOMAIN posts :
          LET old == posts[id]
              legal == <<old.status, "published">> \in EdgesFor(res'.userType)
          IN  /\ (Handles("publishPost", id) /\ (IsEmpty(old.title) \/ IsEmpty(old.content)))
                    => /\ res'.code \in {400, 403}
                       /\ posts'[id] = old
                       /\ (old.userId = res'.userId /\ legal)
                             => res'.code = 400 /\ res'.message = RequiredToPublish
              /\ (Handles("publishPost", id) /\ old.userId = res'.userId /\ ~legal)
                    => /\ res'.code = 400
                       /\ res'.message = <<"Cannot transition from ", old.status,
                                           " to ", "published">>
                       /\ res'.message # RequiredToPublish]_vars

\* the owner of a draft without a title is refused with the message of the
\* content check
C7_Witness ==
    \E id \in PostIds :
        /\ Handled("publishPost", id)
        /\ posts[id].status = "unpublished"
        /\ posts[id].userId = res.userId
        /\ IsEmpty(posts[id].title)
        /\ res.code = 400
        /\ res.message = RequiredToPublish

----------------------------------------------------------------------------
(* C8 *)

\* C8: unbanPost succeeds only on a banned post and recoverPost only on a
\* deleted post; in every other status the request is refused and the post
\* is left as it was.
C8_UnbanOnlyBannedRecoverOnlyDeleted ==
    [][\A id \in DOMAIN posts :
          /\ Handles("unbanPost", id) =>
                IF posts[id].status = "banned" /\ IsAdminRole(res'.userType)
                THEN res'.code = 200
                ELSE res'.code # 200 /\ posts'[id] = posts[id]
          /\ Handles("recoverPost", id) =>
                IF posts[id].status = "deleted" /\ IsAdminRole(res'.userType)
                THEN res'.code = 200
                ELSE res'.code # 200 /\ posts'[id] = posts[id]]_vars

----------------------------------------------------------------------------
(* C9 *)

\* C9: a successful ban sets dateBanned and bannedBy, and bannedReason when
\* a reason is given; a successful unban clears the three; a successful
\* deletePost sets dateDeleted; a successful recover clears it; no other
\* request changes these fields.
C9_BanAndDeleteMetadata ==
    [][\A id \in DOMAIN posts :
          LET old == posts[id]
              new == posts'[id]
              done(op) == Handles(op, id) /\ res'.code = 200
          IN  /\ done("banPost") =>
                    /\ new.dateBanned # None
                    /\ new.bannedBy = Some(res'.userId)
                    /\ Truthy(res'.req.reason) => new.bannedReason = res'.req.reason
              /\ done("unbanPost") =>
                    new.dateBanned = None /\ new.bannedBy = None /\ new.bannedReason = None
              /\ done("deletePost") => new.dateDeleted # None
              /\ done("recoverPost") => new.dateDeleted = None
              /\ (new.dateBanned # old.dateBanned \/ new.bannedBy # old.bannedBy
                    \/ new.bannedReason # old.bannedReason)
                    => done("banPost") \/ done("unbanPost")
              /\ new.dateDeleted # old.dateDeleted
                    => done("deletePost") \/ done("recoverPost")]_vars

\* a post banned with a reason has been unbanned
C9_Witness ==
    \E id \in PostIds :
        /\ Handled("unbanPost", id)
        /\ res.code = 200
        /\ posts[id].status = "published"
        /\ posts[id].dateBanned = None
        /\ posts[id].bannedBy = None
        /\ posts[id].bannedReason = None

----------------------------------------------------------------------------
(* C10 *)

\* C10: repliesDisabled changes only in a disableReplies or enableReplies by
\* the owner of a published post; in every other case these requests are
\* refused and leave repliesDisabled and status as they were.
C10_RepliesFlagOnlyByOwnerWhilePublished ==
    [][\A id \in DOMAIN posts :
          LET old == posts[id]
              new == posts'[id]
              toggling == Handles("disableReplies", id) \/ Handles("enableReplies", id)
              permitted == old.userId = res'.userId /\ old.status = "published"
          IN  /\ new.repliesDisabled # old.repliesDisabled => toggling /\ permitted
              /\ (toggling /\ permitted) =>
                    /\ res'.code = 200
                    /\ new.repliesDisabled = Handles("disableReplies", id)
                    /\ new.status = old.status
              /\ (toggling /\ ~permitted) =>
                    /\ res'.code \in {400, 403}
                    /\ new.repliesDisabled = old.repliesDisabled
                    /\ new.status = old.status]_vars

\* the owner is refused on a hidden post whose replies were disabled before
C10_Witness ==
    \E id \in PostIds :
        /\ Handled("enableReplies", id)
        /\ posts[id].status = "hidden"
        /\ posts[id].userId = res.userId
        /\ posts[id].repliesDisabled
        /\ res.code = 400

----------------------------------------------------------------------------
(* Replies *)

\* the post takes replies: it exists, is published, is not archived and has
\* its replies enabled
OpenForReplies(postId) ==
    /\ postId \in DOMAIN posts
    /\ posts[postId].status = "published"
    /\ ~posts[postId].isArchived
    /\ posts[postId].repliesDisabled = FALSE

\* the step wrote a reply or a sub-reply under the top-level reply id
Created(id) ==
    /\ id \in DOMAIN replies'
    /\ \/ id \notin DOMAIN replies
       \/ Len(replies'[id].replies) > Len(replies[id].replies)

\* C11: createReply and createSubReply write a reply only under a post that
\* exists, is published, is not archived and has repliesDisabled false; on any
\* other post the request is answered with a client error, no reply is
\* written and replyCount stays as it was.
C11_RepliesOnlyOnOpenPosts ==
    [][res'.op \in {"createReply", "createSubReply"} =>
          \/ /\ res'.code = 201
             /\ \E id \in ReplyIds : Created(id) /\ OpenForReplies(replies'[id].postId)
          \/ /\ res'.code \in 400..499
             /\ UNCHANGED replyVars]_vars

\* the reply a delete request of this step names, when it exists: its
\* author, the owner of its post and whether the step leaves it inactive
DeleteTarget ==
    CASE /\ res'.op = "deleteComment"
         /\ res'.userId # ""
         /\ res'.req.replyId \in DOMAIN replies ->
            Some([author |-> replies[res'.req.replyId].userId,
                  owner |-> PostOwnerOf(res'.postId),
                  inactive |-> ~replies'[res'.req.replyId].isActive])
      [] /\ res'.op = "deleteReply"
         /\ res'.req.id \in DOMAIN replies ->
            Some([author |-> replies[res'.req.id].userId,
                  owner |-> posts[replies[res'.req.id].postId].userId,
                  inactive |-> ~replies'[res'.req.id].isActive])
      [] /\ res'.op = "deleteNestedReply"
         /\ res'.req.parentReplyId \in DOMAIN replies
         /\ res'.req.targetPath # << >>
         /\ Resolve(replies[res'.req.parentReplyId], res'.req.targetPath) # None ->
            Some([author |-> Resolve(replies[res'.req.parentReplyId],
                                     res'.req.targetPath)[1].userId,
                  owner |-> posts[replies[res'.req.parentReplyId].postId].userId,
                  inactive |-> ~Resolve(replies'[res'.req.parentReplyId],
                                        res'.req.targetPath)[1].isActive])
      [] OTHER -> None

\* C12: a request to delete an existing reply succeeds when the requester is
\* the reply's author, the owner of the post or an admin or superadmin; from
\* anyone else it is denied, whatever the state of the reply, and the replies
\* and replyCount stay as they were.
C12_DeleteOnlyByAuthorOwnerAdmin ==
    [][DeleteTarget # None =>
          LET t == DeleteTarget[1]
          IN  IF \/ res'.userId = t.author
                 \/ res'.userId = t.owner
                 \/ res'.userType \in {"admin", "superadmin"}
              THEN res'.code = 200 /\ t.inactive
              ELSE res'.code \in 400..499 /\ UNCHANGED replyVars]_vars

\* C13: a deleteReply that succeeds lowers the replyCount of the reply's post
\* by exactly 1, whatever sub-replies the reply carries.
C13_DeleteReplyLowersCountByOne ==
    [][res'.op = "deleteReply" /\ res'.code = 200 =>
          LET postId == replies[res'.req.id].postId
          IN  replyCount'[postId] = replyCount[postId] - 1]_vars

\* the places of the replies held in rs: <<id>> for a document, <<id, i>> for
\* the sub-reply of index i embedded in it
Places(rs) ==
    UNION {{<<id>>} \cup (IF app = "post.routes"
                          THEN {<<id, i - 1>> : i \in DOMAIN rs[id].replies}
                          ELSE {}) : id \in DOMAIN rs}

\* isActive of the reply at place in rs
ActiveAt(rs, place) == Resolve(rs[Head(place)], Tail(place))[1].isActive

\* the place that the delete request of this step names
DeletePlace ==
    CASE res'.op = "deleteComment"     -> <<res'.req.replyId>>
      [] res'.op = "deleteReply"       -> <<res'.req.id>>
      [] res'.op = "deleteNestedReply" -> <<res'.req.parentReplyId>> \o res'.req.targetPath

\* C14: a delete request (deleteReply, deleteNestedReply, deleteComment)
\* changes isActive of no reply but the one it names: every other reply, the
\* ones below the deleted reply among them, stays and keeps its isActive.
C14_SoftDeleteTouchesOnlyItsTarget ==
    [][res'.op \in {"deleteComment", "deleteReply", "deleteNestedReply"} =>
          /\ Places(replies') = Places(replies)
          /\ \A place \in Places(replies) :
                place # DeletePlace => ActiveAt(replies', place) = ActiveAt(replies, place)]_vars

\* a reply was deleted by deleteReply and a sub-reply below it is still active
C14_Witness ==
    /\ res.op = "deleteReply"
    /\ res.code = 200
    /\ res.req.id \in DOMAIN replies
    /\ ~replies[res.req.id].isActive
    /\ \E i \in DOMAIN replies[res.req.id].replies : replies[res.req.id].replies[i].isActive

\* C15: the count of active replies, as getRepliesByPost computes it, is
\* after a successful delete of a reply lower by exactly 1 when the reply was
\* active and the same when it was inactive already, whatever active replies
\* lie below it.
C15_DeleteLowersActiveCountByOne ==
    [][res'.op \in {"deleteReply", "deleteNestedReply"} /\ res'.code = 200 =>
          LET postId == replies[Head(DeletePlace)].postId
              wasActive == ActiveAt(replies, DeletePlace)
          IN  TotalActive(replies', postId) =
                 TotalActive(replies, postId) - (IF wasActive THEN 1 ELSE 0)]_vars

\* C16: a delete request for a reply that is deleted already, from a
\* requester entitled to delete it, is accepted and changes nothing: the
\* replies keep their fields and replyCount is not lowered a second time.
C16_SecondDeleteIsNoOp ==
    [][/\ DeleteTarget # None
       /\ ~ActiveAt(replies, DeletePlace)
       /\ \/ res'.userId = DeleteTarget[1].author
          \/ res'.userId = DeleteTarget[1].owner
          \/ res'.userType \in {"admin", "superadmin"}
       => res'.code = 200 /\ UNCHANGED replyVars]_vars

\* C17: the count of replies that getRepliesByPost reports as total is the
\* number of replies of the post with isActive true, at every level: an
\* active reply below a deleted reply counts as well.
C17_TotalCountsEveryActiveReply ==
    res.op = "getRepliesByPost" /\ res.code = 200 =>
        res.data[1].total =
            Cardinality({place \in Places(replies) :
                            /\ replies[Head(place)].postId = res.postId
                            /\ ActiveAt(replies, place)})

\* the nodes of a tree of getRepliesTree
RECURSIVE NodesOf(_)
NodesOf(node) == {node} \cup UNION {NodesOf(c) : c \in node.children}

\* isActive of every reply that the response of a reply view shows
ShownFlags ==
    CASE res.op = "getRepliesTree" ->
            {n.isActive : n \in UNION {NodesOf(root) : root \in res.data[1]}}
      [] res.op \in {"listReplies", "topLevelReplies", "listChildren"} ->
            {d.isActive : d \in res.data[1].replies}
      [] res.op = "getRepliesByPost" /\ res.code = 200 ->
            UNION {{res.data[1].replies[i].reply.isActive} \cup
                   {res.data[1].replies[i].reply.replies[j].isActive :
                       j \in DOMAIN res.data[1].replies[i].reply.replies} :
                   i \in DOMAIN res.data[1].replies}
      [] OTHER -> {}

\* C18: no reply view (the page of top-level replies, the page of children,
\* the flat list, the full tree) shows a reply whose isActive is false.
C18_ViewsShowOnlyActiveReplies == FALSE \notin ShownFlags

\* the replies above id: its parent, the parent of its parent, and so on
RECURSIVE Ancestors(_)
Ancestors(id) ==
    LET parent == replies[id].parentReplyId
    IN  IF Truthy(parent) /\ parent[1] \in DOMAIN replies
        THEN {parent[1]} \cup Ancestors(parent[1])
        ELSE {}

\* C19: the full tree of a post holds every active reply of the post that
\* lies below a soft-deleted reply, whether the deleted reply is a top-level
\* reply or a nested one.
C19_TreeKeepsActiveDescendants ==
    res.op = "getRepliesTree" =>
        \A id \in DOMAIN replies :
            /\ replies[id].postId = res.postId
            /\ replies[id].isActive
            /\ \E a \in Ancestors(id) : ~replies[a].isActive
            => id \in {n.replyId : n \in UNION {NodesOf(root) : root \in res.data[1]}}

\* C20: a createComment that names as parent a reply of another post fails:
\* it is answered with a client error, no reply is written and the list of
\* children of no reply changes.
C20_ParentOfAnotherPostIsRefused ==
    [][/\ res'.op = "createComment"
       /\ Truthy(res'.req.comment)
       /\ res'.userId # ""
       /\ Truthy(res'.req.parentReplyId)
       /\ res'.req.parentReplyId[1] \in DOMAIN replies
       /\ replies[res'.req.parentReplyId[1]].postId # res'.postId
       => res'.code \in 400..499 /\ UNCHANGED replyVars]_vars

\* the parent that a request to write a reply below another reply names:
\* the reply of parentReplyId when createSubReply finds it and the reply of
\* :replyId otherwise, the reply of parentReplyId for createComment; None when
\* the request names no parent
NamedParent ==
    CASE res'.op = "createSubReply" ->
            IF /\ Truthy(res'.req.parentReplyId)
               /\ res'.req.parentReplyId[1] \in DOMAIN replies
            THEN res'.req.parentReplyId
            ELSE Some(res'.req.replyId)
      [] res'.op = "createComment" /\ Truthy(res'.req.parentReplyId) ->
            res'.req.parentReplyId
      [] OTHER -> None

\* C21: a request to write a reply under a parent that does not exist or
\* that has been soft-deleted fails: it is answered with a client error, no
\* reply is written, and the parent's children and replyCount stay as they
\* were.
C21_NoReplyUnderMissingOrDeletedParent ==
    [][/\ NamedParent # None
       /\ \/ NamedParent[1] \notin DOMAIN replies
          \/ ~replies[NamedParent[1]].isActive
       => res'.code \in 400..499 /\ UNCHANGED replyVars]_vars


----------------------------------------------------------------------------
(* Overlapping status changes *)

\* the save step of a request of operation op: its slot is released
Saves(op) ==
    \E slot \in DOMAIN inflight :
        /\ inflight[slot].op = op
        /\ slot \notin DOMAIN inflight'

\* C22: of the ban requests that overlap on one published post exactly one
\* applies the ban; a ban request that writes dateBanned, bannedBy and
\* bannedReason and answers 200 never finds the stored post banned already.
C22_BanAppliedOnce ==
    [][\A id \in PostIds :
          Saves("banPost") /\ Handles("banPost", id) /\ res'.code = 200
          => posts[id].status # "banned"]_vars

\* what the request r makes of the stored document when it runs alone
Alone(r, stored) ==
    LET can == CASE r.op = "hidePost" ->
                      /\ stored.userId = r.tok.userId
                      /\ validateStatusTransition(stored.status, "hidden",
                                                  r.tok.userType).allowed
                 [] r.op = "banPost" ->
                      validateStatusTransition(stored.status, "banned",
                                               r.tok.userType).allowed
                 [] OTHER -> TRUE
        doc == CASE r.op = "hidePost" -> [stored EXCEPT !.status = "hidden"]
                 [] r.op = "banPost" -> Banned(stored, r.tok.userId, r.req.reason)
                 [] OTHER -> Deleted(stored)
    IN  IF can THEN [doc EXCEPT !.dateModified = Now] ELSE stored

\* C23: when two status changes of one post overlap, the stored post is
\* what the requests give in some serial order: every save leaves the post
\* as the request would have left the document stored at that moment (an
\* owner's hide never replaces the ban an admin saved in between).
C23_OverlapIsSerial ==
    [][\A slot \in DOMAIN inflight :
          slot \notin DOMAIN inflight'
          => posts'[inflight[slot].id] = Alone(inflight[slot], posts[inflight[slot].id])]_vars


----------------------------------------------------------------------------
(* The reply collaborator is down *)

Down(answer) == answer.kind # "ok"

\* C24: when the reply collaborator times out, cannot be reached or answers
\* with an error, getRepliesForPost returns the empty list without throwing
\* (every candidate endpoint failing, for the variant that tries several),
\* and getPostById still answers 200 with the post and an empty reply list.
C24_RepliesDegradeToEmpty ==
    /\ res.op = "getRepliesForPost" /\ Down(res.req.answer)
       => res.ret = Resolved(<< >>)
    /\ res.op = "getRepliesForPostCandidates"
            /\ (\A i \in DOMAIN res.req.answers : Down(res.req.answers[i]))
       => res.ret = Resolved(<< >>)
    /\ res.op = "getPostById" /\ Down(res.req.answer) /\ res.postId \in DOMAIN posts
            /\ canViewPost(posts[res.postId], res.userId, res.userType)
       => /\ res.code = 200
          /\ res.data = Some([post |-> posts[res.postId], replies |-> << >>])

C24_Witness ==
    /\ res.op = "getPostById"
    /\ res.req.answer = Rejection("ETIMEDOUT")
    /\ res.code = 200
    /\ res.data[1].post.status = "hidden"


----------------------------------------------------------------------------
(* Files of a request that fails *)

\* C25: when createPost or updatePost fails after it uploaded files (a
\* later file of a batch is rejected, the attachments fail after the
\* images, or the save of the post fails), no file uploaded by the request
\* is left in the file service.
C25_FailedRequestLeavesNoFiles ==
    [][/\ res'.op \in {"createPost", "updatePost"}
       /\ "images" \in DOMAIN res'.req
       /\ res'.code >= 400
       => files' \subseteq files]_vars


----------------------------------------------------------------------------
(* The post service is down *)

\* C26: while the post service cannot be reached, deleteComment succeeds
\* only for the author of the reply; any other requester is refused and
\* the reply stays as it was.
C26_OnlyAuthorDeletesWhenPostServiceDown ==
    [][/\ res'.op = "deleteComment"
       /\ res'.req.replyId \in DOMAIN replies
       /\ replies[res'.req.replyId].userId # res'.userId
       => res'.code \in 400..499 /\ UNCHANGED replyVars]_vars


----------------------------------------------------------------------------
(* Overlapping sub-replies *)

\* the ids among the children of the reply parentReplyId of a post document
ChildrenOf(post, parentReplyId) ==
    LET at == FindEmbedded(post.replies, parentReplyId)
    IN  IF at = 0 THEN {}
        ELSE {post.replies[at].replies[i] : i \in DOMAIN post.replies[at].replies}

\* C27: when two sub-reply creations under one parent overlap (the other
\* one saved its reply under the parent after this one loaded it), both
\* replies are among the children of the parent once both have completed;
\* no insertion is lost.
C27_OverlappingSubRepliesAllKept ==
    [][\A slot \in DOMAIN inflight :
          /\ slot \notin DOMAIN inflight'
          /\ inflight[slot].op = "createComment"
          /\ Truthy(inflight[slot].req.parentReplyId)
          /\ ChildrenOf(posts[inflight[slot].id], inflight[slot].req.parentReplyId[1])
                # ChildrenOf(inflight[slot].post, inflight[slot].req.parentReplyId[1])
          => inflight[slot].new.replyId
                \in ChildrenOf(posts'[inflight[slot].id],
                               inflight[slot].req.parentReplyId[1])]_vars


----------------------------------------------------------------------------
(* replyCount against the replies *)

\* C28: between requests the replyCount of a post equals the number of its
\* active replies, top-level and nested, as getRepliesByPost counts them,
\* and is never below zero.
C28_ReplyCountIsActiveCount ==
    \A postId \in PostIds :
        /\ replyCount[postId] = TotalActive(replies, postId)
        /\ replyCount[postId] >= 0

----------------------------------------------------------------------------
(* replyCount after a partial failure *)

\* the last request, a create or delete of a reply, had one of its writes
\* rejected
PartialFailure ==
    /\ res.op \in {"createReply", "deleteReply"}
    /\ "failure" \in DOMAIN res.req

\* C29: when the replyCount update of a reply create or delete fails after
\* the reply was written, or the reply write fails, the stored replyCount
\* is eventually equal to the active reply count again; it does not stay
\* different forever.
C29_ReplyCountHealsAfterFailure ==
    \A postId \in PostIds :
        (PartialFailure /\ replyCount[postId] # TotalActive(replies, postId))
            ~> (replyCount[postId] = TotalActive(replies, postId))


----------------------------------------------------------------------------
(* isActive once cleared *)

\* C30: a reply whose isActive is false stays in place with isActive
\* false: no create, sub-reply, delete or status change of the post sets it
\* back to true.
C30_InactiveStaysInactive ==
    [][\A place \in Places(replies) :
          ~ActiveAt(replies, place)
          => place \in Places(replies') /\ ~ActiveAt(replies', place)]_vars

\* a deleted reply was deleted once more, and is still inactive
C30_Witness ==
    /\ res.op \in {"deleteReply", "deleteComment"}
    /\ res.code = 200
    /\ \E id \in DOMAIN replies :
          /\ ~replies[id].isActive
          /\ \/ res.op = "deleteReply" /\ res.req.id = id /\ replyCount[replies[id].postId] < 0
             \/ res.op = "deleteComment" /\ res.req.replyId = id
                   /\ res.data = Some(CommentJSON(id))


----------------------------------------------------------------------------
(* The child-id list of a parent *)

\* the ids in the replies array of the reply id
ChildIds(id) == {replies[id].replies[i] : i \in DOMAIN replies[id].replies}

\* C31: the child-id list of a parent holds the id of every reply whose
\* parentReplyId is that parent, active or soft-deleted: a soft-delete does
\* not take the id out and a successful create does not leave it out.
C31_ChildIdsHoldEveryChild ==
    \A id \in DOMAIN replies :
        /\ Truthy(replies[id].parentReplyId)
        /\ replies[id].parentReplyId[1] \in DOMAIN replies
        => id \in ChildIds(replies[id].parentReplyId[1])


----------------------------------------------------------------------------
(* The depth of the full tree *)

\* the levels of children below a node of the tree
RECURSIVE Depth(_)
Depth(node) ==
    IF node.children = {} THEN 0
    ELSE 1 + (LET ds == {Depth(c) : c \in node.children}
              IN  CHOOSE d \in ds : \A e \in ds : e <= d)

\* C32: the full-tree view nests replies no deeper than the maxDepth it
\* was asked with.  (Siblings carry no order here: the replies of the model
\* are all created at the same instant.)
C32_TreeNoDeeperThanMaxDepth ==
    /\ res.op = "getRepliesTree"
    /\ "maxDepth" \in DOMAIN res.req
    => \A node \in res.data[1] : Depth(node) <= ParseInt(res.req.maxDepth)[1]


----------------------------------------------------------------------------
(* The ownership lookup of deleteComment *)

\* C33: every deleteComment request that waits for the ownership lookup
\* eventually returns a response, whether or not the post service answers.
C33_DeleteCommentReturns ==
    \A slot \in LookupSlots : (slot \in DOMAIN inflight) ~> (slot \notin DOMAIN inflight)


----------------------------------------------------------------------------
(* What a soft-delete writes *)

\* the fields of a reply that a soft-delete is to leave alone
KeptOnDelete == {"comment", "userId", "postId", "parentReplyId"}

\* C34: a deleteComment that soft-deletes a reply keeps the record and
\* changes none of its comment text, author, postId and parentReplyId.
C34_SoftDeleteKeepsContent ==
    [][\A id \in DOMAIN replies :
          /\ res'.op = "deleteComment" /\ res'.code = 200
          /\ res'.req.replyId = id
          /\ ~replies[id].isDeleted
          => /\ id \in DOMAIN replies'
             /\ \A f \in KeptOnDelete : replies'[id][f] = replies[id][f]]_vars


----------------------------------------------------------------------------
(* The chain of parents of a reply *)

\* following parentReplyId from id reaches, within n steps and without leaving
\* the post postId, a stored reply with no parent
RECURSIVE ReachesRoot(_, _, _)
ReachesRoot(id, postId, n) ==
    /\ id \in DOMAIN replies
    /\ replies[id].postId = postId
    /\ \/ ~Truthy(replies[id].parentReplyId)
       \/ /\ n > 0
          /\ ReachesRoot(replies[id].parentReplyId[1], postId, n - 1)

\* C35: following parentReplyId from any reply reaches in finitely many steps
\* a reply without parent on the same post: no cycle, no missing parent, no
\* parent on another post.
C35_ParentChainsEndAtARoot ==
    \A id \in DOMAIN replies :
        ReachesRoot(id, replies[id].postId, Cardinality(DOMAIN replies))


----------------------------------------------------------------------------
(* What a published post carries *)

\* C36: every published post has a non-empty title and a non-empty content.
C36_PublishedHasTitleAndContent ==
    \A id \in DOMAIN posts :
        posts[id].status = "published"
        => Truthy(posts[id].title) /\ Truthy(posts[id].content)


----------------------------------------------------------------------------
(* The ban and delete metadata of a post *)

\* C37: a published post has dateBanned, bannedBy, bannedReason and
\* dateDeleted all unset, and a banned post has dateBanned and bannedBy set.
C37_MetadataAgreesWithStatus ==
    \A id \in DOMAIN posts :
        /\ posts[id].status = "published"
           => /\ posts[id].dateBanned = None /\ posts[id].bannedBy = None
              /\ posts[id].bannedReason = None /\ posts[id].dateDeleted = None
        /\ posts[id].status = "banned"
           => posts[id].dateBanned # None /\ posts[id].bannedBy # None


----------------------------------------------------------------------------
(* A child written while its parent is deleted *)

\* C38: a reply is never committed under a parent that is inactive when the
\* reply is committed.
C38_NoChildUnderInactiveParent ==
    [][\A id \in DOMAIN replies' \ DOMAIN replies :
          Truthy(replies'[id].parentReplyId)
          => /\ replies'[id].parentReplyId[1] \in DOMAIN replies
             /\ replies[replies'[id].parentReplyId[1]].isActive]_vars


----------------------------------------------------------------------------
(* What a status transition leaves alone *)

\* the handlers that move a post to another status
StatusOps ==
    {"publishPost", "hidePost", "unhidePost", "banPost", "unbanPost", "recoverPost", "deletePost"}

\* the fields of a post that a status transition is to leave alone; postId is
\* the key under which the post is stored
KeptOnTransition ==
    {"userId", "title", "content", "images", "attachments", "repliesDisabled", "dateCreated"}

\* C39: a successful publish, hide, unhide, ban, unban, recover or deletePost
\* keeps the post under its postId and changes none of its owner, title,
\* content, images, attachments, repliesDisabled and dateCreated.
C39_TransitionKeepsContent ==
    [][\A id \in DOMAIN posts :
          /\ res'.op \in StatusOps
          /\ res'.code = 200
          /\ res'.postId = id
          => /\ id \in DOMAIN posts'
             /\ \A f \in KeptOnTransition : posts'[id][f] = posts[id][f]]_vars

\* an admin has recovered a deleted post that has a title and whose replies
\* its owner had disabled
C39_Witness ==
    /\ res.op = "recoverPost"
    /\ res.code = 200
    /\ res.postId \in DOMAIN posts
    /\ posts[res.postId].status = "published"
    /\ posts[res.postId].repliesDisabled
    /\ Truthy(posts[res.postId].title)

====
